---- MODULE Spec2Model ----
(***************************************************************************)
(* Carrion-LSP: the Analyzer (document store behind a sync.RWMutex), the   *)
(* DynamicLoader (catalog tables mirrored from the interpreter             *)
(* environment) and the BifrostIntegration (package prober), as a state    *)
(* machine of goroutines calling the Analyzer's exported methods.          *)
(*                                                                         *)
(* Go maps are reference objects: a.builtins, dl.builtins and a map        *)
(* returned by GetBuiltins() may all name the same object.  The model      *)
(* keeps a heap of map objects (a map is modelled by its key set; the      *)
(* descriptor stored under a key is a function of the key) and map-valued  *)
(* fields hold heap ids.                                                   *)
(***************************************************************************)
EXTENDS Integers, Sequences, FiniteSets, TLC

\* ------------------------------------------------------------------ bounds
\* total number of UpdateDocument calls in one behaviour
MaxSeq == 3
\* the largest line and character of a feature request's position (the
\* smallest is -1)
MaxLine == 9
MaxCharacter == 10

\* ------------------------------------------------------------- the inputs
Threads == {"g1", "g2"}
NoThread == "none"
URIs == {"a.crl", "b.crl"}
\* a URI that does not end in ".crl"
OtherURIs == {"notes.txt"}
AllURIs == URIs \cup OtherURIs

\* strings.HasSuffix(uri, ".crl")
HasCrlSuffix(uri) == uri \in {"a.crl", "b.crl"}

\* Document texts.  A text is identified by a name; what the parser and
\* analyzeImport make of it is ImportsOf (the Path of every ImportSymbol).
\* An import path is the sequence of its "/"-separated segments.
\*   plain     : x = 1
\*   usesPkg   : import "pkgA/util"   import "ghost"
\*   usesLocal : import "./lib.crl"
Texts == {"plain", "usesPkg", "usesLocal"}
\*   usesBroken: import "broken"   import "nomain"   import "./gone.crl"
FailingTexts == {"usesBroken"}

ImportsOf(text) ==
  CASE text = "usesPkg" -> {<<"pkgA", "util">>, <<"ghost">>}
    [] text = "usesLocal" -> {<<".", "lib.crl">>}
    [] text = "usesBroken" -> {<<"broken">>, <<"nomain">>, <<".", "gone.crl">>}
    [] OTHER -> {}

\* texts for the feature providers
\*   shadow : print = 1 / p / Tr / I
\*   ctor   : grim P with spell greet; v = P(); String = P(); y = z;
\*            v. / <tab>v. / String.
\*   clash : spell greet, spell P, grim P with the spell greet, P = 1
FeatureTexts == {"shadow", "ctor", "clash"}
\* texts for the formatter, each with the texts formatting turns it into
\*   empty  : no character           emptyF : one newline
\*   plainF : x = 1 and a newline
\*   hash   : h={"a":1,"b":2}        hashAB, hashBA : spaced, either order
\*   fn     : spell f(): / return 1, indented by two spaces
\*   fnS, fnT : indented by four spaces, by a tab
FormatTexts ==
  {"plain", "plainF", "empty", "emptyF", "hash", "hashAB", "hashBA", "fn",
   "fnS", "fnT"}
AllTexts == Texts \cup FailingTexts \cup FeatureTexts \cup FormatTexts

\* strings.Split(doc.Content, "\n"): the lines of each text, a line being
\* the sequence of its characters
Lines(text) ==
  CASE text = "plain" ->
         <<<<"x", " ", "=", " ", "1">>>>
    [] text = "usesPkg" ->
         <<<<"i", "m", "p", "o", "r", "t", " ", "\"", "p", "k", "g", "A", "/", "u", "t", "i", "l", "\"">>,
           <<"i", "m", "p", "o", "r", "t", " ", "\"", "g", "h", "o", "s", "t", "\"">>>>
    [] text = "usesLocal" ->
         <<<<"i", "m", "p", "o", "r", "t", " ", "\"", ".", "/", "l", "i", "b", ".", "c", "r", "l", "\"">>>>
    [] text = "usesBroken" ->
         <<<<"i", "m", "p", "o", "r", "t", " ", "\"", "b", "r", "o", "k", "e", "n", "\"">>,
           <<"i", "m", "p", "o", "r", "t", " ", "\"", "n", "o", "m", "a", "i", "n", "\"">>,
           <<"i", "m", "p", "o", "r", "t", " ", "\"", ".", "/", "g", "o", "n", "e", ".", "c", "r", "l", "\"">>>>
    [] text = "shadow" ->
         <<<<"p", "r", "i", "n", "t", " ", "=", " ", "1">>,
           <<"p">>,
           <<"T", "r">>,
           <<"I">>>>
    [] text = "ctor" ->
         <<<<"g", "r", "i", "m", " ", "P", ":">>,
           <<" ", "s", "p", "e", "l", "l", " ", "g", "r", "e", "e", "t", "(", ")", ":">>,
           <<" ", " ", "r", "e", "t", "u", "r", "n", " ", "1">>,
           <<"v", " ", "=", " ", "P", "(", ")">>,
           <<"S", "t", "r", "i", "n", "g", " ", "=", " ", "P", "(", ")">>,
           <<"y", " ", "=", " ", "z">>,
           <<"v", ".">>,
           <<"\t", "v", ".">>,
           <<"S", "t", "r", "i", "n", "g", ".">>>>
    [] text = "empty" ->
         <<<<>>>>
    [] text = "emptyF" ->
         <<<<>>,
           <<>>>>
    [] text = "plainF" ->
         <<<<"x", " ", "=", " ", "1">>,
           <<>>>>
    [] text = "hash" ->
         <<<<"h", "=", "{", "\"", "a", "\"", ":", "1", ",", "\"", "b", "\"", ":", "2", "}">>>>
    [] text = "hashAB" ->
         <<<<"h", " ", "=", " ", "{", "\"", "a", "\"", ":", " ", "1", ",", " ", "\"", "b", "\"", ":", " ", "2", "}">>,
           <<>>>>
    [] text = "hashBA" ->
         <<<<"h", " ", "=", " ", "{", "\"", "b", "\"", ":", " ", "2", ",", " ", "\"", "a", "\"", ":", " ", "1", "}">>,
           <<>>>>
    [] text = "fn" ->
         <<<<"s", "p", "e", "l", "l", " ", "f", "(", ")", ":">>,
           <<" ", " ", "r", "e", "t", "u", "r", "n", " ", "1">>>>
    [] text = "fnS" ->
         <<<<"s", "p", "e", "l", "l", " ", "f", "(", ")", ":">>,
           <<" ", " ", " ", " ", "r", "e", "t", "u", "r", "n", " ", "1">>,
           <<>>>>
    [] text = "fnT" ->
         <<<<"s", "p", "e", "l", "l", " ", "f", "(", ")", ":">>,
           <<"\t", "r", "e", "t", "u", "r", "n", " ", "1">>,
           <<>>>>
    [] text = "clash" ->
         <<<<"s", "p", "e", "l", "l", " ", "g", "r", "e", "e", "t", "(", ")", ":">>,
           <<" ", " ", "r", "e", "t", "u", "r", "n", " ", "1">>,
           <<"s", "p", "e", "l", "l", " ", "P", "(", ")", ":">>,
           <<" ", " ", "r", "e", "t", "u", "r", "n", " ", "1">>,
           <<"g", "r", "i", "m", " ", "P", ":">>,
           <<" ", " ", "s", "p", "e", "l", "l", " ", "g", "r", "e", "e", "t", "(", ")", ":">>,
           <<" ", " ", " ", " ", "r", "e", "t", "u", "r", "n", " ", "1">>,
           <<"P", " ", "=", " ", "1">>>>
    [] OTHER -> << <<>> >>

\* parser.ParseProgram(): program.Statements of each text.  A node is a
\* record whose kind is the name of its ast type.
IntegerLiteral(value) == [kind |-> "IntegerLiteral", Value |-> value]
Identifier(name) == [kind |-> "Identifier", Value |-> name]
CallExpression(fn) ==
  [kind |-> "CallExpression", Function |-> fn, Arguments |-> <<>>]
\* Value: the characters between the quotes
StringLiteral(value) == [kind |-> "StringLiteral", Value |-> value]
\* Pairs is a Go map: the set of its <<key, value>> pairs
HashLiteral(pairs) == [kind |-> "HashLiteral", Pairs |-> pairs]
\* the pairs of the maps in the texts: "a": 1 and "b": 2
MapPairs ==
  {<<StringLiteral(<<"a">>), IntegerLiteral(1)>>,
   <<StringLiteral(<<"b">>), IntegerLiteral(2)>>}
DotExpression == [kind |-> "DotExpression"]
AssignStatement(name, value) ==
  [kind |-> "AssignStatement", Name |-> Identifier(name), Value |-> value,
   Operator |-> <<"=">>]
ExpressionStatement(expr) == [kind |-> "ExpressionStatement", Expression |-> expr]
\* a field that may be nil is the sequence of at most one node
ReturnStatement(returnValue) ==
  [kind |-> "ReturnStatement", ReturnValue |-> returnValue]
ImportStatement(filePath) ==
  [kind |-> "ImportStatement", FilePath |-> <<StringLiteral(filePath)>>,
   ClassName |-> <<>>, Alias |-> <<>>]
FunctionDefinition(name, body) ==
  [kind |-> "FunctionDefinition", Name |-> name, Body |-> body,
   Parameters |-> <<>>, DocString |-> <<>>]
GrimoireDefinition(name, initMethod, methods) ==
  [kind |-> "GrimoireDefinition", Name |-> name, InitMethod |-> initMethod,
   Methods |-> methods, Inherits |-> <<>>, DocString |-> <<>>]

Statements(text) ==
  CASE text = "plain" -> <<AssignStatement("x", IntegerLiteral(1))>>
    [] text = "usesPkg" ->
         <<ImportStatement(<<"p", "k", "g", "A", "/", "u", "t", "i", "l">>),
           ImportStatement(<<"g", "h", "o", "s", "t">>)>>
    [] text = "usesLocal" ->
         <<ImportStatement(<<".", "/", "l", "i", "b", ".", "c", "r", "l">>)>>
    [] text = "usesBroken" ->
         <<ImportStatement(<<"b", "r", "o", "k", "e", "n">>),
           ImportStatement(<<"n", "o", "m", "a", "i", "n">>),
           ImportStatement(<<".", "/", "g", "o", "n", "e", ".", "c", "r", "l">>)>>
    [] text = "shadow" ->
         <<AssignStatement("print", IntegerLiteral(1)),
           ExpressionStatement(Identifier("p")),
           ExpressionStatement(Identifier("Tr")),
           ExpressionStatement(Identifier("I"))>>
    [] text = "ctor" ->
         <<GrimoireDefinition("P", <<>>,
             <<FunctionDefinition("greet",
                <<ReturnStatement(<<IntegerLiteral(1)>>)>>)>>),
           AssignStatement("v", CallExpression(Identifier("P"))),
           AssignStatement("String", CallExpression(Identifier("P"))),
           AssignStatement("y", Identifier("z")),
           ExpressionStatement(DotExpression),
           ExpressionStatement(DotExpression),
           ExpressionStatement(DotExpression)>>
    [] text \in {"empty", "emptyF"} -> <<>>
    [] text = "plainF" -> <<AssignStatement("x", IntegerLiteral(1))>>
    [] text \in {"hash", "hashAB", "hashBA"} ->
         <<AssignStatement("h", HashLiteral(MapPairs))>>
    [] text \in {"fn", "fnS", "fnT"} ->
         <<FunctionDefinition("f", <<ReturnStatement(<<IntegerLiteral(1)>>)>>)>>
    [] text = "clash" ->
         <<FunctionDefinition("greet",
             <<ReturnStatement(<<IntegerLiteral(1)>>)>>),
           FunctionDefinition("P", <<ReturnStatement(<<IntegerLiteral(1)>>)>>),
           GrimoireDefinition("P", <<>>,
             <<FunctionDefinition("greet",
                <<ReturnStatement(<<IntegerLiteral(1)>>)>>)>>),
           AssignStatement("P", IntegerLiteral(1))>>
    [] OTHER -> <<>>

\* ----------------------------------------------------- Symbol Extractor
\* type SymbolTable: Grimoires, Spells and Variables are maps (functions on
\* their key sets); Imports is ImportsOf
NoSymbols == [Grimoires |-> <<>>, Spells |-> <<>>, Variables |-> <<>>]

\* m[k] = v on a Go map
Put(m, k, v) == [n \in (DOMAIN m) \cup {k} |-> IF n = k THEN v ELSE m[n]]

\* inferTypeWithContext(expr, symbols); catalog is the key set of
\* a.carriongGrimoires
inferTypeWithContext(expr, symbols, catalog) ==
  CASE expr.kind = "IntegerLiteral" -> "int"
    [] expr.kind = "FloatLiteral" -> "float"
    [] expr.kind = "StringLiteral" -> "string"
    [] expr.kind = "Boolean" -> "bool"
    [] expr.kind = "ArrayLiteral" -> "array"
    [] expr.kind = "HashLiteral" -> "hash"
    [] expr.kind = "TupleLiteral" -> "tuple"
    [] expr.kind = "NoneLiteral" -> "None"
    [] expr.kind = "CallExpression" ->
         IF expr.Function.kind = "Identifier"
            /\ \/ expr.Function.Value \in DOMAIN symbols.Grimoires
               \/ expr.Function.Value \in catalog
         THEN expr.Function.Value
         ELSE "unknown"
    [] expr.kind = "Identifier" ->
         IF expr.Value \in DOMAIN symbols.Variables
         THEN symbols.Variables[expr.Value].Type
         ELSE expr.Value
    [] OTHER -> "unknown"

\* analyzeVariable
analyzeVariable(node, symbols, catalog) ==
  IF node.Name.kind = "Identifier"
  THEN [symbols EXCEPT !.Variables =
         Put(@, node.Name.Value,
             [Type |-> inferTypeWithContext(node.Value, symbols, catalog)])]
  ELSE symbols

\* analyzeBlockStatement over block.Statements
RECURSIVE analyzeBlockStatement(_, _, _)
analyzeBlockStatement(block, symbols, catalog) ==
  IF block = <<>> THEN symbols
  ELSE LET node == Head(block)
           after ==
             CASE node.kind = "AssignStatement" ->
                    analyzeVariable(node, symbols, catalog)
               [] node.kind = "BlockStatement" ->
                    analyzeBlockStatement(node.Statements, symbols, catalog)
               [] node.kind = "IfStatement" ->
                    analyzeBlockStatement(node.Alternative,
                      analyzeBlockStatement(node.Consequence, symbols, catalog),
                      catalog)
               [] node.kind \in {"ForStatement", "WhileStatement"} ->
                    analyzeBlockStatement(node.Body, symbols, catalog)
               [] OTHER -> symbols
       IN analyzeBlockStatement(Tail(block), after, catalog)

\* analyzeGrimoire: the loop over node.Methods; grimoire is the
\* GrimoireSymbol under construction
RECURSIVE analyzeMethods(_, _, _, _)
analyzeMethods(methods, grimoire, symbols, catalog) ==
  IF methods = <<>>
  THEN [symbols EXCEPT !.Grimoires = Put(@, grimoire.Name, grimoire)]
  ELSE LET method == Head(methods)
           scanned == analyzeBlockStatement(method.Body, symbols, catalog)
       IN analyzeMethods(Tail(methods),
            [grimoire EXCEPT !.Spells = @ \cup {method.Name}],
            [scanned EXCEPT !.Spells =
               Put(@, method.Name, [Grimoire |-> grimoire.Name])],
            catalog)

\* analyzeGrimoire
analyzeGrimoire(node, symbols, catalog) ==
  LET grimoire == [Name |-> node.Name, Spells |-> {},
                   InitSpell |-> node.InitMethod # <<>>]
      withInit ==
        IF node.InitMethod # <<>>
        THEN [analyzeBlockStatement(node.InitMethod[1].Body, symbols, catalog)
                EXCEPT !.Spells = Put(@, "init", [Grimoire |-> node.Name])]
        ELSE symbols
  IN analyzeMethods(node.Methods, grimoire, withInit, catalog)

\* analyzeSpell
analyzeSpell(node, symbols, catalog) ==
  analyzeBlockStatement(node.Body,
    [symbols EXCEPT !.Spells = Put(@, node.Name, [Grimoire |-> ""])], catalog)

\* buildSymbolTable: the loop over program.Statements
RECURSIVE analyzeStatements(_, _, _)
analyzeStatements(statements, symbols, catalog) ==
  IF statements = <<>> THEN symbols
  ELSE LET node == Head(statements)
           after ==
             CASE node.kind = "GrimoireDefinition" ->
                    analyzeGrimoire(node, symbols, catalog)
               [] node.kind = "FunctionDefinition" ->
                    analyzeSpell(node, symbols, catalog)
               [] node.kind = "AssignStatement" ->
                    analyzeVariable(node, symbols, catalog)
               [] OTHER -> symbols
       IN analyzeStatements(Tail(statements), after, catalog)

buildSymbolTable(statements, catalog) ==
  analyzeStatements(statements, NoSymbols, catalog)

\* ------------------------------------------------------ the file system
PackagePaths ==
  <<"cwd/carrion_modules", "home/.carrion/packages", "/usr/local/share/carrion/lib">>

\* sub-directories of each search path
DirEntries(searchPath) ==
  CASE searchPath = "cwd/carrion_modules" -> {"pkgA", "broken", "nomain", "raises"}
    [] searchPath = "home/.carrion/packages" -> {"pkgA", "pkgH"}
    [] OTHER -> {}

\* regular files, as <<directory, relative name>>
Files ==
  { << <<"cwd/carrion_modules", "pkgA">>, "src/main.crl" >>,
    << <<"cwd/carrion_modules", "broken">>, "main.crl" >>,
    << <<"cwd/carrion_modules", "raises">>, "raises.crl" >>,
    << <<"home/.carrion/packages", "pkgA">>, "main.crl" >>,
    << <<"home/.carrion/packages", "pkgH">>, "src/main.crl" >>,
    << <<"cwd">>, "lib.crl" >> }

\* what evaluating a source file binds in the environment:
\* functions first, grimoires after (source order)
Defs(file) ==
  CASE file = << <<"cwd/carrion_modules", "pkgA">>, "src/main.crl" >> ->
         [fns |-> {"fa1", "fa2"}, grims |-> {"GA"}]
    [] file = << <<"cwd">>, "lib.crl" >> ->
         [fns |-> {"fl"}, grims |-> {}]
    [] file = << <<"cwd/carrion_modules", "raises">>, "raises.crl" >> ->
         [fns |-> {"fr"}, grims |-> {}]
    [] file = << <<"home/.carrion/packages", "pkgH">>, "src/main.crl" >> ->
         [fns |-> {"fh"}, grims |-> {}]
    [] OTHER -> [fns |-> {}, grims |-> {}]

\* files whose text the parser rejects
ParseErrorFiles == {<< <<"cwd/carrion_modules", "broken">>, "main.crl" >>}

\* files os.ReadFile fails on although os.Stat finds them
UnreadableFiles == {}

\* files whose evaluation raises an error after the bindings of Defs:
\* evaluator.Eval then returns an error object
EvalErrorFiles == {<< <<"cwd/carrion_modules", "raises">>, "raises.crl" >>}

\* directories below the working directory
Dirs == {<<"cwd">>}

\* names ending in ".crl"
CrlNames ==
  {"lib.crl", "gone.crl", "main.crl", "pkgA.crl", "ghost.crl", "broken.crl",
   "nomain.crl", "raises.crl", "pkgH.crl", "os.crl"}

\* packageName + ".crl"
CrlName(name) ==
  CASE name = "pkgA" -> "pkgA.crl"
    [] name = "ghost" -> "ghost.crl"
    [] name = "broken" -> "broken.crl"
    [] name = "nomain" -> "nomain.crl"
    [] name = "raises" -> "raises.crl"
    [] name = "pkgH" -> "pkgH.crl"
    [] name = "os" -> "os.crl"
    [] OTHER -> ".crl"

NoFile == << <<>>, "" >>

\* ------------------------------------------------- the interpreter side
\* evaluator.GetBuiltins(): the interpreter's canonical built-in table
RuntimeBuiltins == {"print"}
\* grimoire names (every other bound name is a function)
GrimoireNames == {"String", "GA"}
\* the environment after evaluator.LoadMuninStdlib
StdlibEnv == {"String"}

\* the key set loadBuiltins produces for an environment
EnumBuiltins(e) == RuntimeBuiltins \cup (e \ GrimoireNames)
\* the key set loadGrimoires produces for an environment
EnumGrimoires(e) == e \cap GrimoireNames

\* ------------------------------------------------------- characters
\* the keywords of getGeneralCompletions, in the order of the source
keywords ==
  <<"spell", "grim", "init", "self", "if", "otherwise", "else", "for",
    "in", "while", "return", "attempt", "ensnare", "resolve", "raise",
    "import", "as", "match", "case", "stop", "skip", "ignore", "True",
    "False", "None", "and", "or", "not", "main", "global", "autoclose",
    "arcane", "arcanespell", "super", "check">>

\* the characters of every name that occurs as a keyword, a catalog key or
\* a document symbol
Chars(name) ==
  CASE name = "spell" -> <<"s", "p", "e", "l", "l">>
    [] name = "grim" -> <<"g", "r", "i", "m">>
    [] name = "init" -> <<"i", "n", "i", "t">>
    [] name = "self" -> <<"s", "e", "l", "f">>
    [] name = "if" -> <<"i", "f">>
    [] name = "otherwise" -> <<"o", "t", "h", "e", "r", "w", "i", "s", "e">>
    [] name = "else" -> <<"e", "l", "s", "e">>
    [] name = "for" -> <<"f", "o", "r">>
    [] name = "in" -> <<"i", "n">>
    [] name = "while" -> <<"w", "h", "i", "l", "e">>
    [] name = "return" -> <<"r", "e", "t", "u", "r", "n">>
    [] name = "attempt" -> <<"a", "t", "t", "e", "m", "p", "t">>
    [] name = "ensnare" -> <<"e", "n", "s", "n", "a", "r", "e">>
    [] name = "resolve" -> <<"r", "e", "s", "o", "l", "v", "e">>
    [] name = "raise" -> <<"r", "a", "i", "s", "e">>
    [] name = "import" -> <<"i", "m", "p", "o", "r", "t">>
    [] name = "as" -> <<"a", "s">>
    [] name = "match" -> <<"m", "a", "t", "c", "h">>
    [] name = "case" -> <<"c", "a", "s", "e">>
    [] name = "stop" -> <<"s", "t", "o", "p">>
    [] name = "skip" -> <<"s", "k", "i", "p">>
    [] name = "ignore" -> <<"i", "g", "n", "o", "r", "e">>
    [] name = "True" -> <<"T", "r", "u", "e">>
    [] name = "False" -> <<"F", "a", "l", "s", "e">>
    [] name = "None" -> <<"N", "o", "n", "e">>
    [] name = "and" -> <<"a", "n", "d">>
    [] name = "or" -> <<"o", "r">>
    [] name = "not" -> <<"n", "o", "t">>
    [] name = "main" -> <<"m", "a", "i", "n">>
    [] name = "global" -> <<"g", "l", "o", "b", "a", "l">>
    [] name = "autoclose" -> <<"a", "u", "t", "o", "c", "l", "o", "s", "e">>
    [] name = "arcane" -> <<"a", "r", "c", "a", "n", "e">>
    [] name = "arcanespell" -> <<"a", "r", "c", "a", "n", "e", "s", "p", "e", "l", "l">>
    [] name = "super" -> <<"s", "u", "p", "e", "r">>
    [] name = "check" -> <<"c", "h", "e", "c", "k">>
    [] name = "print" -> <<"p", "r", "i", "n", "t">>
    [] name = "fa1" -> <<"f", "a", "1">>
    [] name = "fa2" -> <<"f", "a", "2">>
    [] name = "fl" -> <<"f", "l">>
    [] name = "fr" -> <<"f", "r">>
    [] name = "fh" -> <<"f", "h">>
    [] name = "String" -> <<"S", "t", "r", "i", "n", "g">>
    [] name = "GA" -> <<"G", "A">>
    [] name = "P" -> <<"P">>
    [] name = "greet" -> <<"g", "r", "e", "e", "t">>
    [] name = "v" -> <<"v">>
    [] name = "y" -> <<"y">>
    [] name = "z" -> <<"z">>
    [] name = "x" -> <<"x">>
    [] name = "h" -> <<"h">>
    [] name = "f" -> <<"f">>
    [] OTHER -> <<>>

\* isAlphaNumeric(ch) || ch == '_'
LowerCase ==
  <<"a", "b", "c", "d", "e", "f", "g", "h", "i", "j", "k", "l", "m", "n",
   "o", "p", "q", "r", "s", "t", "u", "v", "w", "x", "y", "z">>
UpperCase ==
  <<"A", "B", "C", "D", "E", "F", "G", "H", "I", "J", "K", "L", "M", "N",
   "O", "P", "Q", "R", "S", "T", "U", "V", "W", "X", "Y", "Z">>

\* ------------------------------------------------------------ the state
VARIABLES
  documents,       \* a.documents: URI -> Document (NoDoc when absent)
  muWriter,        \* a.mu: the goroutine holding the write lock
  muReaders,       \* a.mu: the goroutines holding a read lock
  env,             \* dl.env: the names bound in the interpreter environment
  heap,            \* map objects: id -> key set
  dlBuiltins,      \* dl.builtins   (heap id)
  dlGrimoires,     \* dl.grimoires  (heap id)
  aBuiltins,       \* a.builtins    (heap id)
  aGrimoires,      \* a.carriongGrimoires (heap id)
  loadedPackages,  \* bi.loadedPackages: the names mapped to true
  pc,              \* per goroutine: the procedure it is in
  local,           \* per goroutine: arguments and local variables
  nextSeq,         \* history: number of the next stored record
  hist,            \* history: per URI, the writes so far (see NoHist)
  retSeq,          \* history: per URI, the newest record whose update returned
  published,       \* history: key sets of completed table enumerations
  evalCount,       \* history: per package, LoadPackage evaluations of it
  outbox,          \* conn: the notifications the server has sent, in order
  exited           \* history: the exit notification has been handled

vars == <<documents, muWriter, muReaders, env, heap, dlBuiltins, dlGrimoires,
          aBuiltins, aGrimoires, loadedPackages, pc, local, nextSeq, hist,
          retSeq, published, evalCount, outbox, exited>>

catalogVars == <<env, heap, dlBuiltins, dlGrimoires, aBuiltins, aGrimoires>>
historyVars == <<nextSeq, hist, retSeq, published, evalCount>>

MapIds == 1..(3 + Cardinality(Threads))
PackageNames == {"pkgA", "ghost"}
\* more arguments of LoadPackage: a package whose main file has parse
\* errors, one without a main file, one whose evaluation raises, one that
\* only the second search path has, and the name of a runtime module
ProbedNames == PackageNames \cup {"broken", "nomain", "raises", "pkgH", "os"}

\* type Document struct: Content, Symbols and Version (URI is the key; AST
\* and Tokens are functions of Content); seq is history
NoDoc == [text |-> "", version |-> 0, seq |-> 0, symbols |-> NoSymbols]

\* tried: the import paths AutoLoadImports has handed to
\* LoadPackageFromImport; err: the error a call returned ("" for nil);
\* reply: the value a call returned; pos: the position argument of a
\* feature request, <<line, character>>; frame: the notification handler
\* that called UpdateDocument through analyzeDocument
\* the frame of a notification handler: its name, the content changes of
\* its params and those it has still to analyze (NoFrame: the Analyzer was
\* called directly); version0 and sent0 are history: the version of the
\* stored record (0 for none) and the number of notifications sent when the
\* handler was entered
NoFrame ==
  [handler |-> "", params |-> <<>>, changes |-> <<>>, version0 |-> 0,
   sent0 |-> 0]

\* protocol.FormattingOptions
FormattingOptions(tabSize, insertSpaces, trimTrailingWhitespace) ==
  [TabSize |-> tabSize, InsertSpaces |-> insertSpaces,
   TrimTrailingWhitespace |-> trimTrailingWhitespace,
   InsertFinalNewline |-> FALSE, TrimFinalNewlines |-> FALSE]

NoLocal ==
  [uri |-> "", text |-> "", pending |-> {}, pkg |-> "", file |-> NoFile,
   call |-> "", op |-> "", todo |-> {}, snap |-> 0, res |-> NoDoc, floor |-> 0,
   tried |-> {}, err |-> "", reply |-> <<>>, pos |-> <<0, 0>>,
   frame |-> NoFrame,
   options |-> FormattingOptions(0, FALSE, FALSE)]

\* history of the writes to one URI:
\*   op         the latest write, "update" or "remove" ("none" before any)
\*   text       the content argument of the latest UpdateDocument
\*   maxEver    the largest Version ever assigned
\*   priorEver  maxEver as it was before the latest UpdateDocument
\*   maxLive    the largest Version assigned since the URI was last absent
\*   priorLive  maxLive as it was before the latest UpdateDocument
NoHist ==
  [op |-> "none", text |-> "", maxEver |-> 0, priorEver |-> 0, maxLive |-> 0,
   priorLive |-> 0]

Max(a, b) == IF a >= b THEN a ELSE b

\* ------------------------------------------------------------ sync.RWMutex
\* Lock() returns when no goroutine holds the lock in either mode, RLock()
\* when none holds it for writing.  The lock is not reentrant: a goroutine
\* that holds it and asks for it again waits for itself.
WLockFree == muWriter = NoThread /\ muReaders = {}
RLockFree == muWriter = NoThread

\* ----------------------------------------------------------------- heap
Referenced(dB, dG, aB, aG, loc) ==
  {dB, dG, aB, aG} \cup {loc[t].snap : t \in Threads}

\* make(map...): an id no field or local refers to
FreshId(used) == CHOOSE i \in MapIds \ used : \A j \in MapIds \ used : i <= j

\* garbage collection: a map nothing refers to is gone
Sweep(h, dB, dG, aB, aG, loc) ==
  [i \in MapIds |-> IF i \in Referenced(dB, dG, aB, aG, loc) THEN h[i] ELSE {}]

\* ------------------------------------------------------------------ New
Init ==
  /\ documents = [u \in AllURIs |-> NoDoc]
  /\ muWriter = NoThread
  /\ muReaders = {}
  /\ env = StdlibEnv
  /\ heap = [i \in MapIds |-> CASE i = 1 -> EnumBuiltins(StdlibEnv)
                                [] i = 2 -> EnumGrimoires(StdlibEnv)
                                [] OTHER -> {}]
  /\ dlBuiltins = 1
  /\ dlGrimoires = 2
  /\ aBuiltins = 1
  /\ aGrimoires = 2
  /\ loadedPackages = {}
  /\ pc = [t \in Threads |-> "idle"]
  /\ local = [t \in Threads |-> NoLocal]
  /\ nextSeq = 1
  /\ hist = [u \in AllURIs |-> NoHist]
  /\ retSeq = [u \in AllURIs |-> 0]
  /\ published = {EnumBuiltins(StdlibEnv), EnumGrimoires(StdlibEnv)}
  /\ evalCount = [p \in ProbedNames |-> 0]
  /\ outbox = <<>>
  /\ exited = FALSE

\* ------------------------------------------------------- Document Store
\* getNextVersion without the increment
getNextVersionNoIncrement(uri) ==
  IF documents[uri] # NoDoc THEN documents[uri].version ELSE 1

\* getNextVersion counting from zero
getNextVersionFromZero(uri) ==
  IF documents[uri] # NoDoc THEN documents[uri].version + 1 ELSE 0

getNextVersion(uri) ==
  IF documents[uri] # NoDoc THEN documents[uri].version + 1 ELSE 1

\* the store keeping the record it already has
StoreDocIfAbsent(docs, uri, doc) ==
  IF docs[uri] # NoDoc THEN docs ELSE [docs EXCEPT ![uri] = doc]

\* a.documents[uri] = doc
StoreDoc(docs, uri, doc) == [docs EXCEPT ![uri] = doc]

\* a close that clears the whole store
DeleteDocAll(docs, uri) == [w \in AllURIs |-> NoDoc]

\* delete(a.documents, uri)
DeleteDoc(docs, uri) == [docs EXCEPT ![uri] = NoDoc]

\* UpdateDocument is called; the goroutine reaches a.mu.Lock()
UpdateCall(t, u, d) ==
  /\ pc[t] = "idle"
  /\ nextSeq + Cardinality({x \in Threads : pc[x] = "UpdateDocument"}) <= MaxSeq
  /\ pc' = [pc EXCEPT ![t] = "UpdateDocument"]
  /\ local' = [local EXCEPT ![t] =
       [NoLocal EXCEPT !.call = "UpdateDocument", !.uri = u, !.text = d]]
  /\ UNCHANGED <<documents, muWriter, muReaders, loadedPackages>>
  /\ UNCHANGED catalogVars
  /\ UNCHANGED historyVars
  /\ UNCHANGED outbox
  /\ UNCHANGED exited

\* a.mu.Lock() succeeds; parse, tokenize, build the symbol table, store the
\* record; the deferred Unlock has not run: the goroutine enters
\* AutoLoadImports with the write lock held
UpdateStore(t) ==
  /\ pc[t] = "UpdateDocument"
  /\ WLockFree
  /\ muWriter' = t
  /\ LET u == local[t].uri
         doc == [text |-> local[t].text, version |-> getNextVersion(u),
                 seq |-> nextSeq,
                 symbols |-> buildSymbolTable(Statements(local[t].text),
                                              heap[aGrimoires])]
     IN /\ documents' = StoreDoc(documents, u, doc)
        /\ local' = [local EXCEPT ![t].res = doc,
                                  ![t].pending = ImportsOf(local[t].text)]
        /\ hist' = [hist EXCEPT ![u] =
             [op |-> "update", text |-> local[t].text,
              maxEver |-> Max(hist[u].maxEver, doc.version),
              priorEver |-> hist[u].maxEver,
              maxLive |-> Max(hist[u].maxLive, doc.version),
              priorLive |-> hist[u].maxLive]]
  /\ nextSeq' = nextSeq + 1
  /\ pc' = [pc EXCEPT ![t] = "AutoLoadImports"]
  /\ UNCHANGED <<muReaders, loadedPackages, retSeq, published, evalCount>>
  /\ UNCHANGED catalogVars
  /\ UNCHANGED outbox
  /\ UNCHANGED exited

\* AutoLoadImports is over: UpdateDocument returns doc, the deferred
\* a.mu.Unlock() runs; a call from analyzeDocument returns to its
\* conn.Notify
UpdateReturn(t) ==
  /\ pc[t] = "AutoLoadImports"
  /\ local[t].pending = {}
  /\ muWriter' = NoThread
  /\ retSeq' = [retSeq EXCEPT ![local[t].uri] = Max(@, local[t].res.seq)]
  /\ IF local[t].frame = NoFrame
     THEN /\ pc' = [pc EXCEPT ![t] = "idle"]
          /\ local' = [local EXCEPT ![t] = NoLocal]
     ELSE /\ pc' = [pc EXCEPT ![t] = "publishDiagnostics"]
          /\ local' = [local EXCEPT ![t] =
               [NoLocal EXCEPT !.call = "analyzeDocument", !.uri = local[t].uri,
                               !.text = local[t].text,
                               !.frame = local[t].frame]]
  /\ UNCHANGED <<documents, muReaders, loadedPackages, nextSeq, hist, published,
                 evalCount>>
  /\ UNCHANGED catalogVars
  /\ UNCHANGED outbox
  /\ UNCHANGED exited

\* RemoveDocument: Lock, delete, Unlock
RemoveDocument(t, u) ==
  /\ pc[t] = "idle"
  /\ WLockFree
  /\ documents' = DeleteDoc(documents, u)
  /\ hist' = [hist EXCEPT ![u].op = "remove", ![u].maxLive = 0, ![u].priorLive = 0]
  /\ UNCHANGED <<muWriter, muReaders, loadedPackages, pc, local, nextSeq, retSeq,
                 published, evalCount>>
  /\ UNCHANGED catalogVars
  /\ UNCHANGED outbox
  /\ UNCHANGED exited

\* GetDocument, or a feature provider (GetCompletions, GetHover, ...), is
\* called; the goroutine reaches a.mu.RLock()
GetCall(t, u) ==
  /\ pc[t] = "idle"
  /\ pc' = [pc EXCEPT ![t] = "GetDocument"]
  /\ local' = [local EXCEPT ![t] =
       [NoLocal EXCEPT !.call = "GetDocument", !.uri = u, !.floor = retSeq[u]]]
  /\ UNCHANGED <<documents, muWriter, muReaders, loadedPackages>>
  /\ UNCHANGED catalogVars
  /\ UNCHANGED historyVars
  /\ UNCHANGED outbox
  /\ UNCHANGED exited

\* a.mu.RLock() succeeds; doc := a.documents[uri]
GetRead(t) ==
  /\ pc[t] = "GetDocument"
  /\ RLockFree
  /\ muReaders' = muReaders \cup {t}
  /\ local' = [local EXCEPT ![t].res = documents[local[t].uri]]
  /\ pc' = [pc EXCEPT ![t] = "reading"]
  /\ UNCHANGED <<documents, muWriter, loadedPackages>>
  /\ UNCHANGED catalogVars
  /\ UNCHANGED historyVars
  /\ UNCHANGED outbox
  /\ UNCHANGED exited

\* the reader returns; the deferred a.mu.RUnlock() runs
GetReturn(t) ==
  /\ pc[t] = "reading"
  /\ muReaders' = muReaders \ {t}
  /\ pc' = [pc EXCEPT ![t] = "idle"]
  /\ local' = [local EXCEPT ![t] = NoLocal]
  /\ UNCHANGED <<documents, muWriter, loadedPackages>>
  /\ UNCHANGED catalogVars
  /\ UNCHANGED historyVars
  /\ UNCHANGED outbox
  /\ UNCHANGED exited

\* ------------------------------------------------------- Package Prober
\* findPackage: the directory of the first search path that has a
\* sub-directory packageName; <<>> stands for ""
findPackage(packageName) ==
  LET hits == {i \in 1..Len(PackagePaths) : packageName \in DirEntries(PackagePaths[i])}
  IN IF hits = {} THEN <<>>
     ELSE <<PackagePaths[CHOOSE i \in hits : \A j \in hits : i <= j], packageName>>

\* the main file LoadPackage settles on: src/main.crl, else main.crl, else
\* <name>.crl; NoFile when none exists
MainFileOf(packagePath, packageName) ==
  IF <<packagePath, "src/main.crl">> \in Files THEN <<packagePath, "src/main.crl">>
  ELSE IF <<packagePath, "main.crl">> \in Files THEN <<packagePath, "main.crl">>
  ELSE IF <<packagePath, CrlName(packageName)>> \in Files
       THEN <<packagePath, CrlName(packageName)>>
  ELSE NoFile

\* filepath.Join(cwd, relativePath): "." is dropped, ".." drops its parent
RECURSIVE Clean(_, _)
Clean(acc, rest) ==
  IF rest = <<>> THEN acc
  ELSE IF Head(rest) \in {".", ""} THEN Clean(acc, Tail(rest))
  ELSE IF Head(rest) = ".." /\ acc # <<>>
       THEN Clean(SubSeq(acc, 1, Len(acc) - 1), Tail(rest))
  ELSE Clean(Append(acc, Head(rest)), Tail(rest))

JoinCwd(relativePath) == Clean(<<"cwd">>, relativePath)

\* loadRelativePackage: the file handed to loadCarrionFile, NoFile when the
\* path is neither a .crl file nor a directory with a main.crl
RelativeTarget(relativePath) ==
  LET abs == JoinCwd(relativePath)
      dir == SubSeq(abs, 1, Len(abs) - 1)
  IN IF abs[Len(abs)] \in CrlNames THEN <<dir, abs[Len(abs)]>>
     ELSE IF abs \in Dirs /\ <<abs, "main.crl">> \in Files THEN <<abs, "main.crl">>
     ELSE NoFile

\* strings.HasPrefix(importPath, "./") || strings.HasPrefix(importPath, "../")
IsRelative(importPath) == Len(importPath) > 1 /\ importPath[1] \in {".", ".."}

\* AutoLoadImports giving up at the first import that fails
ReturnToAbortOnError(t, loc, err) ==
  IF loc.call = "UpdateDocument"
  THEN /\ pc' = [pc EXCEPT ![t] = "AutoLoadImports"]
       /\ local' = [local EXCEPT ![t] =
            [NoLocal EXCEPT !.call = loc.call, !.uri = loc.uri, !.text = loc.text,
                            !.res = loc.res, !.tried = loc.tried,
                            !.frame = loc.frame,
                            !.pending = IF err = "" THEN loc.pending ELSE {}]]
  ELSE IF loc.call = "LoadPackage"
  THEN /\ pc' = [pc EXCEPT ![t] = "returned"]
       /\ local' = [local EXCEPT ![t] =
            [NoLocal EXCEPT !.call = loc.call, !.pkg = loc.pkg, !.err = err]]
  ELSE /\ pc' = [pc EXCEPT ![t] = "idle"]
       /\ local' = [local EXCEPT ![t] = NoLocal]

\* return err to the caller: to the loop of AutoLoadImports when the
\* goroutine is inside UpdateDocument (the loop prints a warning for an
\* error and goes on), to the caller of Analyzer.LoadPackage, who then has
\* the error value, and else out of the Analyzer
ReturnTo(t, loc, err) ==
  IF loc.call = "UpdateDocument"
  THEN /\ pc' = [pc EXCEPT ![t] = "AutoLoadImports"]
       /\ local' = [local EXCEPT ![t] =
            [NoLocal EXCEPT !.call = loc.call, !.uri = loc.uri, !.text = loc.text,
                            !.res = loc.res, !.pending = loc.pending,
                            !.tried = loc.tried, !.frame = loc.frame]]
  ELSE IF loc.call = "LoadPackage"
  THEN /\ pc' = [pc EXCEPT ![t] = "returned"]
       /\ local' = [local EXCEPT ![t] =
            [NoLocal EXCEPT !.call = loc.call, !.pkg = loc.pkg, !.err = err]]
  ELSE /\ pc' = [pc EXCEPT ![t] = "idle"]
       /\ local' = [local EXCEPT ![t] = NoLocal]

\* the caller is done with the value a call returned
Resume(t) ==
  /\ pc[t] = "returned"
  /\ pc' = [pc EXCEPT ![t] = "idle"]
  /\ local' = [local EXCEPT ![t] = NoLocal]
  /\ UNCHANGED <<documents, muWriter, muReaders, loadedPackages>>
  /\ UNCHANGED catalogVars
  /\ UNCHANGED historyVars
  /\ UNCHANGED outbox
  /\ UNCHANGED exited

\* AutoLoadImports: one iteration of the loop over doc.Symbols.Imports (a Go
\* map: any order), up to LoadPackageFromImport's dispatch
AutoLoadNext(t) ==
  /\ pc[t] = "AutoLoadImports"
  /\ \E p \in local[t].pending :
       LET rest == local[t].pending \ {p}
       IN IF p = <<"">>
          THEN \* importSym.Path == "": skipped
               /\ local' = [local EXCEPT ![t].pending = rest]
               /\ pc' = pc
          ELSE IF IsRelative(p)
          THEN IF RelativeTarget(p) = NoFile
               THEN \* relative package not found: warning, next import
                    /\ local' = [local EXCEPT ![t].pending = rest,
                                             ![t].tried = @ \cup {p}]
                    /\ pc' = pc
               ELSE /\ local' = [local EXCEPT ![t].pending = rest,
                                             ![t].tried = @ \cup {p},
                                             ![t].file = RelativeTarget(p),
                                             ![t].op = "loadCarrionFile"]
                    /\ pc' = [pc EXCEPT ![t] = "loadCarrionFile"]
          ELSE /\ local' = [local EXCEPT ![t].pending = rest,
                                        ![t].tried = @ \cup {p},
                                        ![t].pkg = p[1],
                                        ![t].op = "LoadPackage"]
               /\ pc' = [pc EXCEPT ![t] = "LoadPackage"]
  /\ UNCHANGED <<documents, muWriter, muReaders, loadedPackages>>
  /\ UNCHANGED catalogVars
  /\ UNCHANGED historyVars
  /\ UNCHANGED outbox
  /\ UNCHANGED exited

\* Analyzer.LoadPackage(packageName) is called directly
LoadPackageCall(t, name) ==
  /\ pc[t] = "idle"
  /\ pc' = [pc EXCEPT ![t] = "LoadPackage"]
  /\ local' = [local EXCEPT ![t] =
       [NoLocal EXCEPT !.call = "LoadPackage", !.pkg = name, !.op = "LoadPackage"]]
  /\ UNCHANGED <<documents, muWriter, muReaders, loadedPackages>>
  /\ UNCHANGED catalogVars
  /\ UNCHANGED historyVars
  /\ UNCHANGED outbox
  /\ UNCHANGED exited

\* BifrostIntegration.LoadPackage up to the parse: the loadedPackages check,
\* findPackage, the main-file probe, ReadFile, ParseProgram
LoadPackageCheck(t) ==
  /\ pc[t] = "LoadPackage"
  /\ LET name == local[t].pkg
         packagePath == findPackage(name)
         mainFile == MainFileOf(packagePath, name)
     IN IF name \in loadedPackages THEN ReturnTo(t, local[t], "")
        ELSE IF packagePath = <<>> THEN ReturnTo(t, local[t], "package not found")
        ELSE IF mainFile = NoFile THEN ReturnTo(t, local[t], "no main file found")
        ELSE IF mainFile \in UnreadableFiles
             THEN ReturnTo(t, local[t], "failed to read package file")
        ELSE IF mainFile \in ParseErrorFiles
             THEN ReturnTo(t, local[t], "parse errors in package")
        ELSE /\ local' = [local EXCEPT ![t].file = mainFile]
             /\ pc' = [pc EXCEPT ![t] = "Eval"]
  /\ UNCHANGED <<documents, muWriter, muReaders, loadedPackages>>
  /\ UNCHANGED catalogVars
  /\ UNCHANGED historyVars
  /\ UNCHANGED outbox
  /\ UNCHANGED exited

\* loadCarrionFile up to the parse: ReadFile, ParseProgram
LoadCarrionFileCheck(t) ==
  /\ pc[t] = "loadCarrionFile"
  /\ IF local[t].file \notin Files \/ local[t].file \in UnreadableFiles
     THEN ReturnTo(t, local[t], "failed to read file")
     ELSE IF local[t].file \in ParseErrorFiles
     THEN ReturnTo(t, local[t], "parse errors in file")
     ELSE /\ pc' = [pc EXCEPT ![t] = "Eval"]
          /\ local' = local
  /\ UNCHANGED <<documents, muWriter, muReaders, loadedPackages>>
  /\ UNCHANGED catalogVars
  /\ UNCHANGED historyVars
  /\ UNCHANGED outbox
  /\ UNCHANGED exited

\* ------------------------------------------------------- Catalog Loader
\* evaluator.Eval(program, dl.env, nil) begins: the function definitions
\* of the file are bound
EvalBegin(t) ==
  /\ pc[t] = "Eval"
  /\ env' = env \cup Defs(local[t].file).fns
  /\ evalCount' = IF local[t].op = "LoadPackage"
                  THEN [evalCount EXCEPT ![local[t].pkg] = @ + 1]
                  ELSE evalCount
  /\ pc' = [pc EXCEPT ![t] = "Evaluating"]
  /\ UNCHANGED <<documents, muWriter, muReaders, loadedPackages, local, heap,
                 dlBuiltins, dlGrimoires, aBuiltins, aGrimoires, nextSeq, hist,
                 retSeq, published>>
  /\ UNCHANGED outbox
  /\ UNCHANGED exited

\* evaluator.Eval ends: the grimoires of the file are bound.  LoadPackage
\* and loadCarrionFile go on to Analyzer.RefreshDynamicData, and
\* DynamicLoader.LoadBifrostPackage to loadBuiltins on the maps it has
EvalEnd(t) ==
  /\ pc[t] = "Evaluating"
  /\ env' = env \cup Defs(local[t].file).grims
  /\ IF local[t].op = "LoadBifrostPackage"
     THEN /\ pc' = [pc EXCEPT ![t] = "loadBuiltins"]
          /\ local' = [local EXCEPT ![t].todo = EnumBuiltins(env')]
     ELSE /\ pc' = [pc EXCEPT ![t] = "RefreshDynamicData"]
          /\ local' = local
  /\ UNCHANGED <<documents, muWriter, muReaders, loadedPackages, heap,
                 dlBuiltins, dlGrimoires, aBuiltins, aGrimoires>>
  /\ UNCHANGED historyVars
  /\ UNCHANGED outbox
  /\ UNCHANGED exited

\* Analyzer.RefreshDynamicData() is called directly
RefreshCall(t) ==
  /\ pc[t] = "idle"
  /\ pc' = [pc EXCEPT ![t] = "RefreshDynamicData"]
  /\ local' = [local EXCEPT ![t] =
       [NoLocal EXCEPT !.call = "RefreshDynamicData", !.op = "RefreshDynamicData"]]
  /\ UNCHANGED <<documents, muWriter, muReaders, loadedPackages>>
  /\ UNCHANGED catalogVars
  /\ UNCHANGED historyVars
  /\ UNCHANGED outbox
  /\ UNCHANGED exited

\* Analyzer.RefreshDynamicData: a.mu.Lock() succeeds;
\* DynamicLoader.RefreshDynamicData makes two empty maps
RefreshLock(t) ==
  /\ pc[t] = "RefreshDynamicData"
  /\ WLockFree
  /\ muWriter' = t
  /\ LET used == Referenced(dlBuiltins, dlGrimoires, aBuiltins, aGrimoires, local)
         b == FreshId(used)
         g == FreshId(used \cup {b})
     IN /\ dlBuiltins' = b
        /\ dlGrimoires' = g
        /\ heap' = [heap EXCEPT ![b] = {}, ![g] = {}]
  /\ local' = [local EXCEPT ![t].todo = EnumBuiltins(env)]
  /\ pc' = [pc EXCEPT ![t] = "loadBuiltins"]
  /\ UNCHANGED <<documents, muReaders, loadedPackages, env, aBuiltins, aGrimoires>>
  /\ UNCHANGED historyVars
  /\ UNCHANGED outbox
  /\ UNCHANGED exited

\* loadBuiltins / loadEnvironmentBuiltins: one entry is written to
\* dl.builtins.  todo is what the loops saw when they began; a binding that
\* a concurrent Eval adds meanwhile may be produced by the range or not
LoadBuiltinsEntry(t) ==
  /\ pc[t] = "loadBuiltins"
  /\ \E n \in (local[t].todo \cup EnumBuiltins(env)) \ heap[dlBuiltins] :
       heap' = [heap EXCEPT ![dlBuiltins] = @ \cup {n}]
  /\ UNCHANGED <<documents, muWriter, muReaders, loadedPackages, pc, local, env,
                 dlBuiltins, dlGrimoires, aBuiltins, aGrimoires>>
  /\ UNCHANGED historyVars
  /\ UNCHANGED outbox
  /\ UNCHANGED exited

\* loadBuiltins returns; loadGrimoires begins
LoadBuiltinsDone(t) ==
  /\ pc[t] = "loadBuiltins"
  /\ local[t].todo \subseteq heap[dlBuiltins]
  /\ published' = published \cup {heap[dlBuiltins]}
  /\ local' = [local EXCEPT ![t].todo = EnumGrimoires(env)]
  /\ pc' = [pc EXCEPT ![t] = "loadGrimoires"]
  /\ UNCHANGED <<documents, muWriter, muReaders, loadedPackages, nextSeq, hist,
                 retSeq, evalCount>>
  /\ UNCHANGED catalogVars
  /\ UNCHANGED outbox
  /\ UNCHANGED exited

\* loadGrimoires: one entry is written to dl.grimoires
LoadGrimoiresEntry(t) ==
  /\ pc[t] = "loadGrimoires"
  /\ \E n \in (local[t].todo \cup EnumGrimoires(env)) \ heap[dlGrimoires] :
       heap' = [heap EXCEPT ![dlGrimoires] = @ \cup {n}]
  /\ UNCHANGED <<documents, muWriter, muReaders, loadedPackages, pc, local, env,
                 dlBuiltins, dlGrimoires, aBuiltins, aGrimoires>>
  /\ UNCHANGED historyVars
  /\ UNCHANGED outbox
  /\ UNCHANGED exited

\* loadGrimoires returns
LoadGrimoiresDone(t) ==
  /\ pc[t] = "loadGrimoires"
  /\ local[t].todo \subseteq heap[dlGrimoires]
  /\ published' = published \cup {heap[dlGrimoires]}
  /\ local' = [local EXCEPT ![t].todo = {}]
  /\ pc' = [pc EXCEPT ![t] = "publish"]
  /\ UNCHANGED <<documents, muWriter, muReaders, loadedPackages, nextSeq, hist,
                 retSeq, evalCount>>
  /\ UNCHANGED catalogVars
  /\ UNCHANGED outbox
  /\ UNCHANGED exited

\* Analyzer.RefreshDynamicData / Analyzer.LoadBifrostPackage: the local
\* caches take the loader's maps, the deferred a.mu.Unlock() runs, and the
\* method returns to its caller
Publish(t) ==
  /\ pc[t] = "publish"
  /\ aBuiltins' = dlBuiltins
  /\ aGrimoires' = dlGrimoires
  /\ muWriter' = NoThread
  /\ heap' = Sweep(heap, dlBuiltins, dlGrimoires, dlBuiltins, dlGrimoires, local)
  /\ IF local[t].op = "LoadPackage"
     THEN /\ pc' = [pc EXCEPT ![t] = "markLoaded"]
          /\ local' = local
     ELSE ReturnTo(t, local[t], "")
  /\ UNCHANGED <<documents, muReaders, loadedPackages, env, dlBuiltins, dlGrimoires>>
  /\ UNCHANGED historyVars
  /\ UNCHANGED outbox
  /\ UNCHANGED exited

\* LoadPackage: bi.loadedPackages[packageName] = true; return nil
MarkLoaded(t) ==
  /\ pc[t] = "markLoaded"
  /\ loadedPackages' = loadedPackages \cup {local[t].pkg}
  /\ ReturnTo(t, local[t], "")
  /\ UNCHANGED <<documents, muWriter, muReaders>>
  /\ UNCHANGED catalogVars
  /\ UNCHANGED historyVars
  /\ UNCHANGED outbox
  /\ UNCHANGED exited

\* DiscoverAvailablePackages: the loop over bi.packagePaths from the i-th
\* path on; packages[packageName] = packagePath for every sub-directory
RECURSIVE ScanPaths(_, _)
ScanPaths(i, packages) ==
  IF i > Len(PackagePaths) THEN packages
  ELSE LET entries == DirEntries(PackagePaths[i])
       IN ScanPaths(i + 1,
            [n \in (DOMAIN packages) \cup entries |->
               IF n \in entries THEN <<PackagePaths[i], n>> ELSE packages[n]])

\* Analyzer.GetAvailablePackages(): the map DiscoverAvailablePackages returns
DiscoverAvailablePackages(t) ==
  /\ pc[t] = "idle"
  /\ pc' = [pc EXCEPT ![t] = "returned"]
  /\ local' = [local EXCEPT ![t] =
       [NoLocal EXCEPT !.call = "DiscoverAvailablePackages",
                       !.reply = ScanPaths(1, [n \in {} |-> <<>>])]]
  /\ UNCHANGED <<documents, muWriter, muReaders, loadedPackages>>
  /\ UNCHANGED catalogVars
  /\ UNCHANGED historyVars
  /\ UNCHANGED outbox
  /\ UNCHANGED exited

\* arguments of LoadBifrostPackage: a package path, and one with a quote in
\* it, for which the generated `import "..."` statement does not parse
BifrostPaths == {"pkgA", "quo\"te"}

\* the file an `import "<packagePath>"` statement makes the interpreter
\* evaluate (the interpreter resolves it; NoFile when it finds nothing)
ImportTarget(packagePath) ==
  LET dir == findPackage(packagePath)
  IN IF dir = <<>> THEN NoFile ELSE MainFileOf(dir, packagePath)

\* Analyzer.LoadBifrostPackage(packagePath) is called
LoadBifrostCall(t, path) ==
  /\ pc[t] = "idle"
  /\ pc' = [pc EXCEPT ![t] = "LoadBifrostPackage"]
  /\ local' = [local EXCEPT ![t] =
       [NoLocal EXCEPT !.call = "LoadBifrostPackage", !.pkg = path,
                       !.op = "LoadBifrostPackage"]]
  /\ UNCHANGED <<documents, muWriter, muReaders, loadedPackages>>
  /\ UNCHANGED catalogVars
  /\ UNCHANGED historyVars
  /\ UNCHANGED outbox
  /\ UNCHANGED exited

\* Analyzer.LoadBifrostPackage: a.mu.Lock() succeeds;
\* DynamicLoader.LoadBifrostPackage parses the import statement and returns
\* the error (the deferred Unlock runs) or goes on to Eval
LoadBifrostLock(t) ==
  /\ pc[t] = "LoadBifrostPackage"
  /\ WLockFree
  /\ IF local[t].pkg = "quo\"te"
     THEN /\ muWriter' = muWriter
          /\ ReturnTo(t, local[t], "parse errors")
     ELSE /\ muWriter' = t
          /\ pc' = [pc EXCEPT ![t] = "Eval"]
          /\ local' = [local EXCEPT ![t].file = ImportTarget(local[t].pkg)]
  /\ UNCHANGED <<documents, muReaders, loadedPackages>>
  /\ UNCHANGED catalogVars
  /\ UNCHANGED historyVars
  /\ UNCHANGED outbox
  /\ UNCHANGED exited

\* Analyzer.GetBuiltins() / GetGrimoires(): RLock, read the field, RUnlock;
\* the caller now holds the map
GetTables(t, which) ==
  /\ pc[t] = "idle"
  /\ RLockFree
  /\ pc' = [pc EXCEPT ![t] = "holding"]
  /\ local' = [local EXCEPT ![t] =
       [NoLocal EXCEPT !.call = "GetBuiltins",
                       !.snap = IF which = "builtins" THEN aBuiltins ELSE aGrimoires]]
  /\ UNCHANGED <<documents, muWriter, muReaders, loadedPackages>>
  /\ UNCHANGED catalogVars
  /\ UNCHANGED historyVars
  /\ UNCHANGED outbox
  /\ UNCHANGED exited

\* the caller lets go of the map it holds
DropTable(t) ==
  /\ pc[t] = "holding"
  /\ pc' = [pc EXCEPT ![t] = "idle"]
  /\ local' = [local EXCEPT ![t] = NoLocal]
  /\ heap' = Sweep(heap, dlBuiltins, dlGrimoires, aBuiltins, aGrimoires, local')
  /\ UNCHANGED <<documents, muWriter, muReaders, loadedPackages, env,
                 dlBuiltins, dlGrimoires, aBuiltins, aGrimoires>>
  /\ UNCHANGED historyVars
  /\ UNCHANGED outbox
  /\ UNCHANGED exited

\* ----------------------------------------------------- Feature Providers
\* strings are sequences of characters; Go positions count from 0
HasPrefix(s, prefix) ==
  Len(prefix) <= Len(s) /\ SubSeq(s, 1, Len(prefix)) = prefix
HasSuffix(s, c) == Len(s) > 0 /\ s[Len(s)] = c
TrimSuffix(s, c) == IF HasSuffix(s, c) THEN SubSeq(s, 1, Len(s) - 1) ELSE s

\* unicode.ToLower on one character
ToLowerChar(c) ==
  IF \E i \in 1..Len(UpperCase) : UpperCase[i] = c
  THEN LowerCase[CHOOSE i \in 1..Len(UpperCase) : UpperCase[i] = c]
  ELSE c
\* strings.ToLower
ToLower(s) == [i \in 1..Len(s) |-> ToLowerChar(s[i])]

isAlphaNumeric(ch) ==
  \/ \E i \in 1..Len(LowerCase) : LowerCase[i] = ch
  \/ \E i \in 1..Len(UpperCase) : UpperCase[i] = ch
  \/ ch \in {"0", "1", "2", "3", "4", "5", "6", "7", "8", "9"}
IsWordChar(ch) == isAlphaNumeric(ch) \/ ch = "_"

\* parts[len(parts)-1] of strings.Split(s, " ")
LastPart(s) ==
  LET spaces == {i \in 1..Len(s) : s[i] = " "}
      from == IF spaces = {} THEN 0
              ELSE CHOOSE i \in spaces : \A j \in spaces : j <= i
  IN SubSeq(s, from + 1, Len(s))

\* extractLastToken
extractLastToken(text) ==
  LET kept == {i \in 0..Len(text) :
                 \A j \in (i + 1)..Len(text) : text[j] \in {" ", "\t"}}
      end == CHOOSE i \in kept : \A j \in kept : i <= j
      word == {i \in 0..end : \A j \in (i + 1)..end : IsWordChar(text[j])}
      start == CHOOSE i \in word : \A j \in word : i <= j
  IN IF end = 0 THEN <<>> ELSE SubSeq(text, start + 1, end)

\* the Spells of a catalog grimoire (GrimoireInfo.Spells): their names
SpellsOf(grimoire) ==
  CASE grimoire = "String" -> {"lower", "upper"}
    [] grimoire = "GA" -> {"run"}
    [] OTHER -> {}

\* primitiveToGrimoire
primitiveToGrimoire ==
  [t \in {"string", "int", "float", "bool", "array"} |->
     CASE t = "string" -> "String"
       [] t = "int" -> "Integer"
       [] t = "float" -> "Float"
       [] t = "bool" -> "Boolean"
       [] t = "array" -> "Array"]

\* a completion list is the set of its items; an item carries the loop that
\* appended it (from), so that two items with one label stay two
Items(labels, kind, from) ==
  {[label |-> l, kind |-> kind, from |-> from] : l \in labels}

\* getMethodCompletions; grimoires is the key set of a.carriongGrimoires
getMethodCompletions(doc, prefix, grimoires) ==
  LET objectName == LastPart(TrimSuffix(prefix, "."))
      named == {g \in grimoires : Chars(g) = objectName}
      variables == {v \in DOMAIN doc.symbols.Variables : Chars(v) = objectName}
      ofVariable(v) ==
        LET type == doc.symbols.Variables[v].Type
        IN (IF type \in DOMAIN doc.symbols.Grimoires
            THEN Items(doc.symbols.Grimoires[type].Spells, "Method", "document")
            ELSE {})
           \cup (IF type \in grimoires
                 THEN Items(SpellsOf(type), "Method", "type") ELSE {})
           \cup (IF type \in DOMAIN primitiveToGrimoire
                    /\ primitiveToGrimoire[type] \in grimoires
                 THEN Items(SpellsOf(primitiveToGrimoire[type]), "Method",
                            "primitive")
                 ELSE {})
  IN UNION {Items(SpellsOf(g), "Method", "catalog") : g \in named}
     \cup UNION {ofVariable(v) : v \in variables}

\* getParameterCompletions
getParameterCompletions(doc, prefix) == {}

\* getGeneralCompletions; builtins and grimoires are the key sets of
\* a.builtins and a.carriongGrimoires
getGeneralCompletions(doc, prefix, builtins, grimoires) ==
  LET matchToken == extractLastToken(prefix)
      matching(names) == {n \in names : HasPrefix(Chars(n), matchToken)}
  IN Items({keywords[i] : i \in {j \in 1..Len(keywords) :
               HasPrefix(Chars(keywords[j]), ToLower(matchToken))}},
           "Keyword", "keywords")
     \cup Items(matching(builtins), "Function", "builtins")
     \cup Items(matching(grimoires), "Class", "catalog")
     \cup Items(matching(DOMAIN doc.symbols.Grimoires), "Class", "document")
     \cup Items(matching(DOMAIN doc.symbols.Spells), "Function", "spells")
     \cup Items(matching(DOMAIN doc.symbols.Variables), "Variable", "variables")

\* what a call comes to: it returns a value, or it panics (an index or a
\* slice bound out of range)
Returns(value) == [panic |-> FALSE, value |-> value]
Panics == [panic |-> TRUE, value |-> {}]

\* the body of GetCompletions below the RLock
Completions(doc, line, character, builtins, grimoires) ==
  LET lines == Lines(doc.text)
  IN IF doc = NoDoc THEN Returns({})
     ELSE IF line >= Len(lines) THEN Returns({})
     ELSE IF line < 0 THEN Panics                     \* lines[line]
     ELSE IF character <= Len(lines[line + 1]) /\ character < 0
          THEN Panics                                 \* currentLine[:character]
     ELSE LET currentLine == lines[line + 1]
              prefix == IF character <= Len(currentLine)
                        THEN SubSeq(currentLine, 1, character) ELSE <<>>
          IN IF HasSuffix(prefix, ".")
             THEN Returns(getMethodCompletions(doc, prefix, grimoires))
             ELSE IF HasSuffix(prefix, "(")
             THEN Returns(getParameterCompletions(doc, prefix))
             ELSE Returns(getGeneralCompletions(doc, prefix, builtins,
                                                grimoires))

\* getWordAtPosition; the word is Returns(<<>>) for ""
getWordAtPosition(text, line, character) ==
  LET lines == Lines(text)
  IN IF line >= Len(lines) THEN Returns(<<>>)
     ELSE IF line < 0 THEN Panics                     \* lines[position.Line]
     ELSE IF character >= Len(lines[line + 1]) THEN Returns(<<>>)
     ELSE IF character < 0 THEN Panics                \* line[end]
     ELSE LET ln == lines[line + 1]
              back == {i \in 0..character :
                         \A j \in (i + 1)..character : IsWordChar(ln[j])}
              start == CHOOSE i \in back : \A j \in back : i <= j
              forth == {i \in character..Len(ln) :
                          \A j \in (character + 1)..i : IsWordChar(ln[j])}
              end == CHOOSE i \in forth : \A j \in forth : j <= i
          IN IF start >= end THEN Returns(<<>>)
             ELSE Returns(SubSeq(ln, start + 1, end))

Named(names, word) == {n \in names : Chars(n) = word}

\* the body of GetHover below the RLock: nil is {}, a Hover is the set of
\* the one table entry it describes
Hover(doc, line, character, builtins, grimoires) ==
  IF doc = NoDoc THEN Returns({})
  ELSE LET word == getWordAtPosition(doc.text, line, character)
           first(kind, names) ==
             {[name |-> n, kind |-> kind] : n \in Named(names, word.value)}
       IN IF word.panic THEN Panics
          ELSE IF word.value = <<>> THEN Returns({})
          ELSE IF first("Builtin", builtins) # {}
          THEN Returns(first("Builtin", builtins))
          ELSE IF first("Grimoire", grimoires) # {}
          THEN Returns(first("Grimoire", grimoires))
          ELSE IF first("Grimoire", DOMAIN doc.symbols.Grimoires) # {}
          THEN Returns(first("Grimoire", DOMAIN doc.symbols.Grimoires))
          ELSE IF first("Spell", DOMAIN doc.symbols.Spells) # {}
          THEN Returns(first("Spell", DOMAIN doc.symbols.Spells))
          ELSE Returns(first("Variable", DOMAIN doc.symbols.Variables))

\* the body of GetDefinition below the RLock: the locations
Definition(uri, doc, line, character) ==
  IF doc = NoDoc THEN Returns({})
  ELSE LET word == getWordAtPosition(doc.text, line, character)
           at(kind, names) ==
             {[URI |-> uri, name |-> n, kind |-> kind] :
                n \in Named(names, word.value)}
       IN IF word.panic THEN Panics
          ELSE IF word.value = <<>> THEN Returns({})
          ELSE Returns(at("Grimoire", DOMAIN doc.symbols.Grimoires)
                       \cup at("Spell", DOMAIN doc.symbols.Spells)
                       \cup at("Variable", DOMAIN doc.symbols.Variables))

\* the body of GetDocumentSymbols below the RLock; the kinds are
\* protocol.SymbolKindClass = 5, SymbolKindMethod = 6, SymbolKindFunction = 12
DocumentSymbols(doc) ==
  IF doc = NoDoc THEN {}
  ELSE {[Name |-> g, Kind |-> 5,
         Children |-> {[Name |-> s, Kind |-> 6] :
                         s \in doc.symbols.Grimoires[g].Spells}] :
          g \in DOMAIN doc.symbols.Grimoires}
       \cup {[Name |-> s, Kind |-> 12, Children |-> {}] :
               s \in {n \in DOMAIN doc.symbols.Spells :
                        doc.symbols.Spells[n].Grimoire = ""}}

\* lexer.NextToken() until EOF: doc.Tokens of each text, as the lexer
\* reports Type, Line, Column and Literal
Token(type, line, column, literal) ==
  [Type |-> type, Line |-> line, Column |-> column, Literal |-> literal]
Tokens(text) ==
  CASE text = "plain" ->
         <<Token("IDENT", 1, 1, <<"x">>),
           Token("ASSIGN", 1, 3, <<"=">>),
           Token("INT", 1, 5, <<"1">>),
           Token("EOF", 1, 6, <<>>)>>
    [] text = "usesPkg" ->
         <<Token("IMPORT", 1, 1, <<"i", "m", "p", "o", "r", "t">>),
           Token("STRING", 1, 8, <<"p", "k", "g", "A", "/", "u", "t", "i", "l">>),
           Token("NEWLINE", 1, 19, <<"\n">>),
           Token("IMPORT", 2, 1, <<"i", "m", "p", "o", "r", "t">>),
           Token("STRING", 2, 8, <<"g", "h", "o", "s", "t">>),
           Token("EOF", 2, 15, <<>>)>>
    [] text = "usesLocal" ->
         <<Token("IMPORT", 1, 1, <<"i", "m", "p", "o", "r", "t">>),
           Token("STRING", 1, 8, <<".", "/", "l", "i", "b", ".", "c", "r", "l">>),
           Token("EOF", 1, 19, <<>>)>>
    [] text = "usesBroken" ->
         <<Token("IMPORT", 1, 1, <<"i", "m", "p", "o", "r", "t">>),
           Token("STRING", 1, 8, <<"b", "r", "o", "k", "e", "n">>),
           Token("NEWLINE", 1, 16, <<"\n">>),
           Token("IMPORT", 2, 1, <<"i", "m", "p", "o", "r", "t">>),
           Token("STRING", 2, 8, <<"n", "o", "m", "a", "i", "n">>),
           Token("NEWLINE", 2, 16, <<"\n">>),
           Token("IMPORT", 3, 1, <<"i", "m", "p", "o", "r", "t">>),
           Token("STRING", 3, 8, <<".", "/", "g", "o", "n", "e", ".", "c", "r", "l">>),
           Token("EOF", 3, 20, <<>>)>>
    [] text = "shadow" ->
         <<Token("IDENT", 1, 1, <<"p", "r", "i", "n", "t">>),
           Token("ASSIGN", 1, 7, <<"=">>),
           Token("INT", 1, 9, <<"1">>),
           Token("NEWLINE", 1, 10, <<"\n">>),
           Token("IDENT", 2, 1, <<"p">>),
           Token("NEWLINE", 2, 2, <<"\n">>),
           Token("IDENT", 3, 1, <<"T", "r">>),
           Token("NEWLINE", 3, 3, <<"\n">>),
           Token("IDENT", 4, 1, <<"I">>),
           Token("EOF", 4, 2, <<>>)>>
    [] text = "ctor" ->
         <<Token("GRIMOIRE", 1, 1, <<"g", "r", "i", "m">>),
           Token("IDENT", 1, 6, <<"P">>),
           Token("COLON", 1, 7, <<":">>),
           Token("NEWLINE", 1, 8, <<"\n">>),
           Token("SPELL", 2, 2, <<"s", "p", "e", "l", "l">>),
           Token("IDENT", 2, 8, <<"g", "r", "e", "e", "t">>),
           Token("LPAREN", 2, 13, <<"(">>),
           Token("RPAREN", 2, 14, <<")">>),
           Token("COLON", 2, 15, <<":">>),
           Token("NEWLINE", 2, 16, <<"\n">>),
           Token("RETURN", 3, 3, <<"r", "e", "t", "u", "r", "n">>),
           Token("INT", 3, 10, <<"1">>),
           Token("NEWLINE", 3, 11, <<"\n">>),
           Token("IDENT", 4, 1, <<"v">>),
           Token("ASSIGN", 4, 3, <<"=">>),
           Token("IDENT", 4, 5, <<"P">>),
           Token("LPAREN", 4, 6, <<"(">>),
           Token("RPAREN", 4, 7, <<")">>),
           Token("NEWLINE", 4, 8, <<"\n">>),
           Token("IDENT", 5, 1, <<"S", "t", "r", "i", "n", "g">>),
           Token("ASSIGN", 5, 8, <<"=">>),
           Token("IDENT", 5, 10, <<"P">>),
           Token("LPAREN", 5, 11, <<"(">>),
           Token("RPAREN", 5, 12, <<")">>),
           Token("NEWLINE", 5, 13, <<"\n">>),
           Token("IDENT", 6, 1, <<"y">>),
           Token("ASSIGN", 6, 3, <<"=">>),
           Token("IDENT", 6, 5, <<"z">>),
           Token("NEWLINE", 6, 6, <<"\n">>),
           Token("IDENT", 7, 1, <<"v">>),
           Token("DOT", 7, 2, <<".">>),
           Token("NEWLINE", 7, 3, <<"\n">>),
           Token("IDENT", 8, 2, <<"v">>),
           Token("DOT", 8, 3, <<".">>),
           Token("NEWLINE", 8, 4, <<"\n">>),
           Token("IDENT", 9, 1, <<"S", "t", "r", "i", "n", "g">>),
           Token("DOT", 9, 7, <<".">>),
           Token("EOF", 9, 8, <<>>)>>
    [] text = "clash" ->
         <<Token("SPELL", 1, 1, <<"s", "p", "e", "l", "l">>),
           Token("IDENT", 1, 7, <<"g", "r", "e", "e", "t">>),
           Token("LPAREN", 1, 12, <<"(">>),
           Token("RPAREN", 1, 13, <<")">>),
           Token("COLON", 1, 14, <<":">>),
           Token("NEWLINE", 1, 15, <<"\n">>),
           Token("RETURN", 2, 3, <<"r", "e", "t", "u", "r", "n">>),
           Token("INT", 2, 10, <<"1">>),
           Token("NEWLINE", 2, 11, <<"\n">>),
           Token("SPELL", 3, 1, <<"s", "p", "e", "l", "l">>),
           Token("IDENT", 3, 7, <<"P">>),
           Token("LPAREN", 3, 8, <<"(">>),
           Token("RPAREN", 3, 9, <<")">>),
           Token("COLON", 3, 10, <<":">>),
           Token("NEWLINE", 3, 11, <<"\n">>),
           Token("RETURN", 4, 3, <<"r", "e", "t", "u", "r", "n">>),
           Token("INT", 4, 10, <<"1">>),
           Token("NEWLINE", 4, 11, <<"\n">>),
           Token("GRIMOIRE", 5, 1, <<"g", "r", "i", "m">>),
           Token("IDENT", 5, 6, <<"P">>),
           Token("COLON", 5, 7, <<":">>),
           Token("NEWLINE", 5, 8, <<"\n">>),
           Token("SPELL", 6, 3, <<"s", "p", "e", "l", "l">>),
           Token("IDENT", 6, 9, <<"g", "r", "e", "e", "t">>),
           Token("LPAREN", 6, 14, <<"(">>),
           Token("RPAREN", 6, 15, <<")">>),
           Token("COLON", 6, 16, <<":">>),
           Token("NEWLINE", 6, 17, <<"\n">>),
           Token("RETURN", 7, 5, <<"r", "e", "t", "u", "r", "n">>),
           Token("INT", 7, 12, <<"1">>),
           Token("NEWLINE", 7, 13, <<"\n">>),
           Token("IDENT", 8, 1, <<"P">>),
           Token("ASSIGN", 8, 3, <<"=">>),
           Token("INT", 8, 5, <<"1">>),
           Token("EOF", 8, 6, <<>>)>>
    [] OTHER -> <<Token("EOF", 1, 1, <<>>)>>

\* mapTokenToSemanticType
mapTokenToSemanticType(tokenType) ==
  CASE tokenType \in {"SPELL", "GRIMOIRE", "IF", "ELSE", "FOR", "WHILE",
                      "RETURN", "IMPORT", "AS"} -> 0
    [] tokenType \in {"STRING", "DOCSTRING"} -> 1
    [] tokenType \in {"INT", "FLOAT"} -> 2
    [] tokenType \in {"ASSIGN", "PLUS", "MINUS", "ASTERISK", "SLASH", "EQ",
                      "NOT_EQ"} -> 3
    [] tokenType = "IDENT" -> 4
    [] OTHER -> -1

\* the loop of GetSemanticTokens over doc.Tokens
RECURSIVE SemanticData(_)
SemanticData(tokens) ==
  IF tokens = <<>> THEN <<>>
  ELSE LET tok == Head(tokens)
           tokenType == mapTokenToSemanticType(tok.Type)
       IN (IF tokenType >= 0
           THEN <<tok.Line, tok.Column, Len(tok.Literal), tokenType, 0>>
           ELSE <<>>) \o SemanticData(Tail(tokens))

\* the body of GetSemanticTokens below the RLock: nil is {}, a pointer is
\* the set of the one struct it points to
SemanticTokens(doc) ==
  IF doc = NoDoc THEN {} ELSE {[Data |-> SemanticData(Tokens(doc.text))]}

\* texts the parser reports errors for
ParseErrorTexts == {"ctor"}

\* --------------------------------------------------------------- Formatter
\* strings.Join
RECURSIVE Join(_, _)
Join(parts, sep) ==
  IF parts = <<>> THEN <<>>
  ELSE IF Len(parts) = 1 THEN parts[1]
  ELSE parts[1] \o sep \o Join(Tail(parts), sep)

\* strings.Split(s, "\n")
RECURSIVE Split(_)
Split(s) ==
  IF \A i \in 1..Len(s) : s[i] # "\n" THEN <<s>>
  ELSE LET i == CHOOSE k \in 1..Len(s) :
                  s[k] = "\n" /\ \A j \in 1..(k - 1) : s[j] # "\n"
       IN <<SubSeq(s, 1, i - 1)>> \o Split(SubSeq(s, i + 1, Len(s)))

\* strings.TrimRight
RECURSIVE TrimRight(_, _)
TrimRight(s, cutset) ==
  IF s # <<>> /\ s[Len(s)] \in cutset
  THEN TrimRight(SubSeq(s, 1, Len(s) - 1), cutset)
  ELSE s

\* fmt.Sprintf("%d", n) for n >= 0
RECURSIVE Sprintd(_)
Sprintd(n) ==
  LET digit == <<"0", "1", "2", "3", "4", "5", "6", "7", "8", "9">>[(n % 10) + 1]
  IN IF n < 10 THEN <<digit>> ELSE Sprintd(n \div 10) \o <<digit>>

\* the text a document holds: its lines joined by newlines
Content(text) == Join(Lines(text), <<"\n">>)

NewCarrionFormatter(options) ==
  [tabSize |-> options.TabSize, insertSpaces |-> options.InsertSpaces,
   options |-> options]

\* strings.Repeat of a blank or of a tab
indentString(f, level) ==
  IF f.insertSpaces THEN [i \in 1..(level * f.tabSize) |-> " "]
  ELSE [i \in 1..level |-> "\t"]

\* the sequences that hold every element of S once
Orderings(S) ==
  {s \in [1..Cardinality(S) -> S] :
     \A i, j \in 1..Cardinality(S) : i # j => s[i] # s[j]}

\* "for key, value := range node.Pairs" visits the pairs of a Go map in an
\* order the language leaves open and the runtime varies from one loop to
\* the next: range is the order of one run over all pairs of the texts, and
\* the pairs of one map come in that order
RECURSIVE formatExpression(_, _, _, _)
formatHashLiteral(node, level, f, range) ==
  LET visited == SelectSeq(range, LAMBDA pair : pair \in node.Pairs)
      pairs == [i \in 1..Len(visited) |->
                  formatExpression(visited[i][1], level, f, range)
                    \o <<":", " ">>
                    \o formatExpression(visited[i][2], level, f, range)]
  IN IF node.Pairs = {} THEN <<"{", "}">>
     ELSE IF Len(pairs) <= 2
     THEN <<"{">> \o Join(pairs, <<",", " ">>) \o <<"}">>
     ELSE <<"{", "\n">> \o indentString(f, level + 1)
            \o Join(pairs, <<",", "\n">> \o indentString(f, level + 1))
            \o <<"\n">> \o indentString(f, level) \o <<"}">>

formatCallExpression(node, level, f, range) ==
  formatExpression(node.Function, level, f, range) \o <<"(">>
    \o Join([i \in 1..Len(node.Arguments) |->
               formatExpression(node.Arguments[i], level, f, range)],
            <<",", " ">>)
    \o <<")">>

\* the kinds of expression the texts hold; any other kind is written by
\* the String method of its node
formatExpression(expr, level, f, range) ==
  CASE expr.kind = "Identifier" -> Chars(expr.Value)
    [] expr.kind = "IntegerLiteral" -> Sprintd(expr.Value)
    [] expr.kind = "StringLiteral" -> <<"\"">> \o expr.Value \o <<"\"">>
    [] expr.kind = "HashLiteral" -> formatHashLiteral(expr, level, f, range)
    [] expr.kind = "CallExpression" -> formatCallExpression(expr, level, f, range)
    [] OTHER -> <<>>

formatAssignStatement(node, level, f, range) ==
  LET name == formatExpression(node.Name, level, f, range)
      value == formatExpression(node.Value, level, f, range)
      operator == IF node.Operator = <<>> THEN <<"=">> ELSE node.Operator
  IN indentString(f, level) \o name \o <<" ">> \o operator \o <<" ">> \o value

formatExpressionStatement(node, level, f, range) ==
  indentString(f, level) \o formatExpression(node.Expression, level, f, range)

formatReturnStatement(node, level, f, range) ==
  IF node.ReturnValue = <<>>
  THEN indentString(f, level) \o <<"r", "e", "t", "u", "r", "n">>
  ELSE indentString(f, level) \o <<"r", "e", "t", "u", "r", "n", " ">>
         \o formatExpression(node.ReturnValue[1], level, f, range)

formatImportStatement(node, level, f) ==
  indentString(f, level) \o <<"i", "m", "p", "o", "r", "t", " ">>
    \o (IF node.FilePath # <<>>
        THEN <<"\"">> \o node.FilePath[1].Value \o <<"\"">> ELSE <<>>)
    \o (IF node.ClassName # <<>>
        THEN <<".">> \o Chars(node.ClassName[1].Value) ELSE <<>>)
    \o (IF node.Alias # <<>>
        THEN <<" ", "a", "s", " ">> \o Chars(node.Alias[1].Value) ELSE <<>>)

\* a doc string comes out above the signature
DocStringParts(node, level, f) ==
  IF node.DocString # <<>>
  THEN <<indentString(f, level) \o <<"\"", "\"", "\"">> \o node.DocString[1].Value
           \o <<"\"", "\"", "\"">>>>
  ELSE <<>>

RECURSIVE formatStatement(_, _, _, _)
RECURSIVE formatBlockStatement(_, _, _, _)
formatBlockStatement(block, level, f, range) ==
  IF block = <<>> THEN <<>>
  ELSE LET formatted == formatStatement(block[1], level, f, range)
       IN (IF formatted # <<>> THEN <<formatted>> ELSE <<>>)
            \o formatBlockStatement(Tail(block), level, f, range)

\* the parameters of the texts are plain identifiers or other expressions
formatParameters(params, level, f, range) ==
  Join([i \in 1..Len(params) |-> formatExpression(params[i], level, f, range)],
       <<",", " ">>)

formatFunctionDefinition(node, level, f, range) ==
  LET signature == <<"s", "p", "e", "l", "l", " ">> \o Chars(node.Name)
                     \o <<"(">> \o formatParameters(node.Parameters, level, f, range) \o <<")", ":">>
  IN Join(DocStringParts(node, level, f)
            \o <<indentString(f, level) \o signature>>
            \o formatBlockStatement(node.Body, level + 1, f, range),
          <<"\n">>)

formatInitMethod(node, level, f, range) ==
  LET signature == <<"i", "n", "i", "t", "(">>
                     \o formatParameters(node.Parameters, level, f, range) \o <<")", ":">>
  IN Join(DocStringParts(node, level, f)
            \o <<indentString(f, level) \o signature>>
            \o formatBlockStatement(node.Body, level + 1, f, range),
          <<"\n">>)

formatGrimoireDefinition(node, level, f, range) ==
  LET grimoireDecl ==
        IF node.Inherits # <<>>
        THEN <<"g", "r", "i", "m", " ">> \o Chars(node.Name) \o <<"(">>
               \o Chars(node.Inherits[1].Value) \o <<")", ":">>
        ELSE <<"g", "r", "i", "m", " ">> \o Chars(node.Name) \o <<":">>
  IN Join(DocStringParts(node, level, f)
            \o <<indentString(f, level) \o grimoireDecl>>
            \o (IF node.InitMethod # <<>>
                THEN <<formatInitMethod(node.InitMethod[1], level + 1, f, range)>>
                ELSE <<>>)
            \o [i \in 1..Len(node.Methods) |->
                  formatFunctionDefinition(node.Methods[i], level + 1, f, range)],
          <<"\n">>)

\* the kinds of statement the texts hold; f.indentLevel is the level argument
formatStatement(stmt, level, f, range) ==
  CASE stmt.kind = "FunctionDefinition" ->
         formatFunctionDefinition(stmt, level, f, range)
    [] stmt.kind = "GrimoireDefinition" ->
         formatGrimoireDefinition(stmt, level, f, range)
    [] stmt.kind = "AssignStatement" ->
         formatAssignStatement(stmt, level, f, range)
    [] stmt.kind = "ExpressionStatement" ->
         formatExpressionStatement(stmt, level, f, range)
    [] stmt.kind = "ReturnStatement" ->
         formatReturnStatement(stmt, level, f, range)
    [] stmt.kind = "ImportStatement" -> formatImportStatement(stmt, level, f)
    [] OTHER -> indentString(f, level)

\* the parts of the statements from the i-th on
RECURSIVE ProgramParts(_, _, _, _)
ProgramParts(statements, i, f, range) ==
  IF i > Len(statements) THEN <<>>
  ELSE LET stmt == statements[i]
           formatted == formatStatement(stmt, 0, f, range)
           blank ==
             IF i < Len(statements)
             THEN CASE stmt.kind = "GrimoireDefinition" ->
                         IF statements[i + 1].kind = "MainStatement"
                         THEN << <<>>, <<>> >> ELSE <<>>
                    [] stmt.kind = "FunctionDefinition" -> << <<>> >>
                    [] OTHER -> <<>>
             ELSE <<>>
       IN (IF formatted # <<>> THEN <<formatted>> ELSE <<>>) \o blank
            \o ProgramParts(statements, i + 1, f, range)

formatProgram(statements, f, range) ==
  Join(ProgramParts(statements, 1, f, range), <<"\n">>)

applyFinalFormatting(content, f) ==
  LET lines == Split(content)
      formattedLines ==
        [i \in 1..Len(lines) |->
           IF f.options.TrimTrailingWhitespace
           THEN TrimRight(lines[i], {" ", "\t"}) ELSE lines[i]]
      joined == Join(formattedLines, <<"\n">>)
      result == TrimRight(joined, {"\n"}) \o <<"\n">>
      final == IF f.options.InsertFinalNewline /\ result[Len(result)] # "\n"
               THEN result \o <<"\n">> ELSE result
  IN IF f.options.TrimFinalNewlines
     THEN TrimRight(final, {"\n"}) \o <<"\n">> ELSE final

\* CarrionFormatter.FormatDocument: no edits when the parser reports errors,
\* else one edit that replaces the whole text
FormatterEdits(text, f, range) ==
  LET formatted == applyFinalFormatting(formatProgram(Statements(text), f, range), f)
      lines == Lines(text)
      endLine == Len(lines) - 1
  IN IF text \in ParseErrorTexts THEN {}
     ELSE {[Start |-> <<0, 0>>, End |-> <<endLine, Len(lines[endLine + 1])>>,
            NewText |-> formatted]}

\* a feature request runs from a.mu.RLock() to the deferred RUnlock in one
\* step; a panic is not recovered: the process is gone
Request(t, call, u, position, outcome) ==
  /\ pc[t] = "idle"
  /\ RLockFree
  /\ pc' = [pc EXCEPT ![t] = IF outcome.panic THEN "panicked" ELSE "returned"]
  /\ local' = [local EXCEPT ![t] =
       [NoLocal EXCEPT !.call = call, !.uri = u, !.pos = position,
                       !.reply = outcome.value]]
  /\ UNCHANGED <<documents, muWriter, muReaders, loadedPackages>>
  /\ UNCHANGED catalogVars
  /\ UNCHANGED historyVars
  /\ UNCHANGED outbox
  /\ UNCHANGED exited

GetCompletions(t, u, line, character) ==
  Request(t, "GetCompletions", u, <<line, character>>,
          Completions(documents[u], line, character, heap[aBuiltins],
                      heap[aGrimoires]))

GetHover(t, u, line, character) ==
  Request(t, "GetHover", u, <<line, character>>,
          Hover(documents[u], line, character, heap[aBuiltins],
                heap[aGrimoires]))

GetDefinition(t, u, line, character) ==
  Request(t, "GetDefinition", u, <<line, character>>,
          Definition(u, documents[u], line, character))

GetDocumentSymbols(t, u) ==
  Request(t, "GetDocumentSymbols", u, <<0, 0>>,
          Returns(DocumentSymbols(documents[u])))

GetSemanticTokens(t, u) ==
  Request(t, "GetSemanticTokens", u, <<0, 0>>,
          Returns(SemanticTokens(documents[u])))

\* text is doc.Content, the argument of the formatter
FormatDocument(t, u, options) ==
  \E range \in Orderings(MapPairs) :
    /\ pc[t] = "idle"
    /\ RLockFree
    /\ pc' = [pc EXCEPT ![t] = "returned"]
    /\ local' = [local EXCEPT ![t] =
         [NoLocal EXCEPT !.call = "FormatDocument", !.uri = u,
                         !.options = options,
                         !.text = IF documents[u] = NoDoc THEN ""
                                  ELSE documents[u].text,
                         !.reply =
                           IF documents[u] = NoDoc THEN {}
                           ELSE FormatterEdits(documents[u].text,
                                  NewCarrionFormatter(options), range)]]
    /\ UNCHANGED <<documents, muWriter, muReaders, loadedPackages>>
    /\ UNCHANGED catalogVars
    /\ UNCHANGED historyVars
    /\ UNCHANGED outbox
    /\ UNCHANGED exited

\* ------------------------------------------------ Notification Handlers
\* p.Errors() of each text: the number of parse errors
ParseErrors(text) == IF text \in ParseErrorTexts THEN 3 ELSE 0

\* analyzeDocument up to the call of UpdateDocument: parse, build the
\* diagnostics, reach a.mu.Lock(); rest are the content changes the handler
\* analyzes afterwards
\* protocol.TextDocumentContentChangeEvent; Range is nil (<<>>) or points
\* to a range
TextDocumentContentChangeEvent(range, text) == [Range |-> range, Text |-> text]

\* the first analyzeDocument call of a handler; changes are the texts it
\* analyzes one after the other
analyzeDocument(t, handler, u, changes) ==
  /\ pc' = [pc EXCEPT ![t] = "UpdateDocument"]
  /\ local' = [local EXCEPT ![t] =
       [NoLocal EXCEPT !.call = "UpdateDocument", !.uri = u,
                       !.text = Head(changes).Text,
                       !.frame = [handler |-> handler, params |-> changes,
                                  changes |-> Tail(changes),
                                  version0 |-> documents[u].version,
                                  sent0 |-> Len(outbox)]]]
  /\ UNCHANGED <<documents, muWriter, muReaders, loadedPackages>>
  /\ UNCHANGED catalogVars
  /\ UNCHANGED historyVars
  /\ UNCHANGED outbox
  /\ UNCHANGED exited

\* a handler returns without calling the Analyzer
HandlerReturn(t, handler, u) ==
  /\ pc' = [pc EXCEPT ![t] = "returned"]
  /\ local' = [local EXCEPT ![t] = [NoLocal EXCEPT !.call = handler, !.uri = u]]
  /\ UNCHANGED <<documents, muWriter, muReaders, loadedPackages>>
  /\ UNCHANGED catalogVars
  /\ UNCHANGED historyVars
  /\ UNCHANGED outbox
  /\ UNCHANGED exited

handleDidOpen(t, u, d) ==
  /\ pc[t] = "idle"
  /\ nextSeq <= MaxSeq
  /\ IF ~HasCrlSuffix(u)
     THEN HandlerReturn(t, "handleDidOpen", u)
     ELSE analyzeDocument(t, "handleDidOpen", u,
                          <<TextDocumentContentChangeEvent(<<>>, d)>>)

\* a handleDidChange that passes over the changes that carry a range
handleDidChangeFullOnly(t, u, changes) ==
  LET full == SelectSeq(changes, LAMBDA change : change.Range = <<>>)
  IN /\ pc[t] = "idle"
     /\ nextSeq + Len(changes) - 1 <= MaxSeq
     /\ IF full = <<>>
        THEN HandlerReturn(t, "handleDidChange", u)
        ELSE /\ pc' = [pc EXCEPT ![t] = "UpdateDocument"]
             /\ local' = [local EXCEPT ![t] =
                  [NoLocal EXCEPT !.call = "UpdateDocument", !.uri = u,
                                  !.text = Head(full).Text,
                                  !.frame = [handler |-> "handleDidChange",
                                             params |-> changes,
                                             changes |-> Tail(full),
                                             version0 |-> documents[u].version,
                                             sent0 |-> Len(outbox)]]]
             /\ UNCHANGED <<documents, muWriter, muReaders, loadedPackages>>
             /\ UNCHANGED catalogVars
             /\ UNCHANGED historyVars
             /\ UNCHANGED outbox
             /\ UNCHANGED exited

\* handleDidChange: the loop over params.ContentChanges; both branches of
\* the test of change.Range analyze change.Text as the whole text
handleDidChange(t, u, changes) ==
  /\ pc[t] = "idle"
  /\ nextSeq + Len(changes) - 1 <= MaxSeq
  /\ IF changes = <<>>
     THEN HandlerReturn(t, "handleDidChange", u)
     ELSE analyzeDocument(t, "handleDidChange", u, changes)

\* handleDidSave: params.Text is nil (hasText = FALSE) or points to d
handleDidSave(t, u, hasText, d) ==
  /\ pc[t] = "idle"
  /\ nextSeq <= MaxSeq
  /\ IF ~hasText
     THEN HandlerReturn(t, "handleDidSave", u)
     ELSE analyzeDocument(t, "handleDidSave", u,
                          <<TextDocumentContentChangeEvent(<<>>, d)>>)

handleDidClose(t, u) == RemoveDocument(t, u)

\* analyzeDocument after UpdateDocument returned: conn.Notify of
\* textDocument/publishDiagnostics; handleDidChange goes on with its next
\* change, the other handlers return
PublishDiagnostics(t) ==
  /\ pc[t] = "publishDiagnostics"
  /\ outbox' = Append(outbox,
       [method |-> "textDocument/publishDiagnostics", URI |-> local[t].uri,
        Diagnostics |-> ParseErrors(local[t].text)])
  /\ IF local[t].frame.changes = <<>>
     THEN /\ pc' = [pc EXCEPT ![t] = "returned"]
          /\ local' = [local EXCEPT ![t] =
               [NoLocal EXCEPT !.call = local[t].frame.handler,
                               !.uri = local[t].uri,
                               !.frame = local[t].frame]]
     ELSE /\ pc' = [pc EXCEPT ![t] = "UpdateDocument"]
          /\ local' = [local EXCEPT ![t] =
               [NoLocal EXCEPT !.call = "UpdateDocument", !.uri = local[t].uri,
                               !.text = Head(local[t].frame.changes).Text,
                               !.frame = [local[t].frame EXCEPT
                                            !.changes = Tail(@)]]]
  /\ UNCHANGED <<documents, muWriter, muReaders, loadedPackages>>
  /\ UNCHANGED catalogVars
  /\ UNCHANGED historyVars
  /\ UNCHANGED exited

\* handleExit: a log line; the handler returns to the connection's read
\* loop
handleExit(t) ==
  /\ pc[t] = "idle"
  /\ exited' = TRUE
  /\ pc' = [pc EXCEPT ![t] = "returned"]
  /\ local' = [local EXCEPT ![t] = [NoLocal EXCEPT !.call = "handleExit"]]
  /\ UNCHANGED <<documents, muWriter, muReaders, loadedPackages>>
  /\ UNCHANGED catalogVars
  /\ UNCHANGED historyVars
  /\ UNCHANGED outbox

\* ------------------------------------------------------------ behaviours
\* Two workloads of the same Analyzer.  Next: clients that edit and query
\* documents and load packages by hand.  CatalogNext: clients that work on
\* the catalog (refresh, LoadBifrostPackage, LoadPackage, GetBuiltins /
\* GetGrimoires) and query documents.
Next ==
  \E t \in Threads :
    \/ \E u \in URIs, d \in Texts : UpdateCall(t, u, d)
    \/ UpdateStore(t)
    \/ AutoLoadNext(t)
    \/ UpdateReturn(t)
    \/ \E u \in URIs : RemoveDocument(t, u)
    \/ \E u \in URIs : GetCall(t, u)
    \/ GetRead(t)
    \/ GetReturn(t)
    \/ \E name \in PackageNames : LoadPackageCall(t, name)
    \/ LoadPackageCheck(t)
    \/ LoadCarrionFileCheck(t)
    \/ EvalBegin(t)
    \/ EvalEnd(t)
    \/ RefreshLock(t)
    \/ LoadBuiltinsEntry(t)
    \/ LoadBuiltinsDone(t)
    \/ LoadGrimoiresEntry(t)
    \/ LoadGrimoiresDone(t)
    \/ Publish(t)
    \/ MarkLoaded(t)
    \/ Resume(t)

Spec == Init /\ [][Next]_vars

\* the steps a goroutine takes inside a call it has made
Progress(t) ==
  \/ UpdateStore(t)
  \/ AutoLoadNext(t)
  \/ UpdateReturn(t)
  \/ GetRead(t)
  \/ GetReturn(t)
  \/ LoadPackageCheck(t)
  \/ LoadCarrionFileCheck(t)
  \/ EvalBegin(t)
  \/ EvalEnd(t)
  \/ RefreshLock(t)
  \/ LoadBuiltinsEntry(t)
  \/ LoadBuiltinsDone(t)
  \/ LoadGrimoiresEntry(t)
  \/ LoadGrimoiresDone(t)
  \/ Publish(t)
  \/ MarkLoaded(t)

\* The Go scheduler runs every runnable goroutine, and sync.RWMutex hands
\* the lock to a goroutine that keeps asking for it: strong fairness of the
\* steps inside a call.  Clients are free to stop calling.
FairSpec == Spec /\ \A t \in Threads : SF_vars(Progress(t))

CatalogNext ==
  \E t \in Threads :
    \/ \E u \in URIs : GetCall(t, u)
    \/ GetRead(t)
    \/ GetReturn(t)
    \/ \E name \in PackageNames : LoadPackageCall(t, name)
    \/ LoadPackageCheck(t)
    \/ EvalBegin(t)
    \/ EvalEnd(t)
    \/ RefreshCall(t)
    \/ RefreshLock(t)
    \/ LoadBuiltinsEntry(t)
    \/ LoadBuiltinsDone(t)
    \/ LoadGrimoiresEntry(t)
    \/ LoadGrimoiresDone(t)
    \/ Publish(t)
    \/ MarkLoaded(t)
    \/ Resume(t)
    \/ \E path \in BifrostPaths : LoadBifrostCall(t, path)
    \/ LoadBifrostLock(t)
    \/ \E which \in {"builtins", "grimoires"} : GetTables(t, which)
    \/ DropTable(t)

CatalogSpec == Init /\ [][CatalogNext]_vars

\* A third workload: one client that probes packages (LoadPackage with
\* every kind of package, DiscoverAvailablePackages) and updates documents
\* whose imports fail.

ProberNext ==
  \E t \in {"g1"} :
    \/ \E u \in URIs, d \in FailingTexts \cup {"plain"} : UpdateCall(t, u, d)
    \/ UpdateStore(t)
    \/ AutoLoadNext(t)
    \/ UpdateReturn(t)
    \/ \E name \in ProbedNames : LoadPackageCall(t, name)
    \/ LoadPackageCheck(t)
    \/ LoadCarrionFileCheck(t)
    \/ EvalBegin(t)
    \/ EvalEnd(t)
    \/ RefreshLock(t)
    \/ LoadBuiltinsEntry(t)
    \/ LoadBuiltinsDone(t)
    \/ LoadGrimoiresEntry(t)
    \/ LoadGrimoiresDone(t)
    \/ Publish(t)
    \/ MarkLoaded(t)
    \/ DiscoverAvailablePackages(t)
    \/ Resume(t)

ProberSpec == Init /\ [][ProberNext]_vars

\* the same scheduling as FairSpec
FairProberSpec == ProberSpec /\ SF_vars(Progress("g1"))

\* The workload of the feature providers: one goroutine stores and removes
\* import-free documents and asks for completions, hover, definitions,
\* symbols, tokens and edits at positions inside and outside the text.
\* The documents live under one URI; the other stays absent.
StoredURIs == {"a.crl"}
QueryLines == (0 - 1)..MaxLine
QueryCharacters == (0 - 1)..MaxCharacter
\* four spaces with trailing blanks trimmed, and tabs
QueryOptions ==
  {FormattingOptions(4, TRUE, TRUE), FormattingOptions(4, FALSE, FALSE)}

FeatureNext ==
  \E t \in {"g1"} :
    /\ pc[t] # "panicked"
    /\ \/ \E u \in StoredURIs, d \in FeatureTexts \cup {"plain"} : UpdateCall(t, u, d)
       \/ UpdateStore(t)
       \/ UpdateReturn(t)
       \/ \E u \in StoredURIs : RemoveDocument(t, u)
       \/ \E u \in URIs, line \in QueryLines, character \in QueryCharacters :
            \/ GetCompletions(t, u, line, character)
            \/ GetHover(t, u, line, character)
            \/ GetDefinition(t, u, line, character)
       \/ \E u \in URIs :
            \/ GetDocumentSymbols(t, u)
            \/ GetSemanticTokens(t, u)
            \/ \E options \in QueryOptions : FormatDocument(t, u, options)
       \/ Resume(t)

FeatureSpec == Init /\ [][FeatureNext]_vars

\* The workload of the formatter: two clients store texts under one URI and
\* ask for it to be formatted.
FormatNext ==
  \E t \in Threads :
    \/ \E u \in StoredURIs, d \in FormatTexts : UpdateCall(t, u, d)
    \/ UpdateStore(t)
    \/ UpdateReturn(t)
    \/ \E u \in StoredURIs, options \in QueryOptions :
         FormatDocument(t, u, options)
    \/ Resume(t)

FormatSpec == Init /\ [][FormatNext]_vars

\* The workload of the notification handlers: the connection delivers one
\* notification at a time, for source files and for another file.
HandlerTexts == {"plain", "ctor", "usesBroken", "usesLocal"}
\* the content changes of one didChange: none, one or two, each with or
\* without a range
Changes ==
  {TextDocumentContentChangeEvent(range, d) :
     range \in {<<>>, <<[Start |-> <<0, 0>>, End |-> <<0, 1>>]>>},
     d \in HandlerTexts}
ChangeLists ==
  {<<>>} \cup {<<c>> : c \in Changes} \cup {<<c, d>> : c \in Changes, d \in Changes}

\* one source file and one other file
HandlerURIs == {"a.crl"} \cup OtherURIs

HandlerNext ==
  \E t \in {"g1"} :
    \/ \E u \in HandlerURIs, d \in HandlerTexts : handleDidOpen(t, u, d)
    \/ \E u \in HandlerURIs, changes \in ChangeLists : handleDidChange(t, u, changes)
    \/ \E u \in HandlerURIs, hasText \in BOOLEAN, d \in HandlerTexts :
         handleDidSave(t, u, hasText, d)
    \/ \E u \in HandlerURIs : handleDidClose(t, u)
    \/ UpdateStore(t)
    \/ AutoLoadNext(t)
    \/ LoadPackageCheck(t)
    \/ LoadCarrionFileCheck(t)
    \/ EvalBegin(t)
    \/ EvalEnd(t)
    \/ UpdateReturn(t)
    \/ PublishDiagnostics(t)
    \/ handleExit(t)
    \/ Resume(t)

HandlerSpec == Init /\ [][HandlerNext]_vars

\* the steps the goroutine takes inside a handler
HandlerProgress(t) == Progress(t) \/ PublishDiagnostics(t)

\* the same scheduling as FairSpec
FairHandlerSpec == HandlerSpec /\ SF_vars(HandlerProgress("g1"))

\* ---------------------------------------------------------------- claims
\* the goroutines inside GetDocument or a feature provider, read lock held,
\* doc := a.documents[uri] read
Readers == {t \in Threads : pc[t] = "reading"}

\* C1 (as stated): a GetDocument(uri) that follows UpdateDocument(uri, d)
\* returns a record whose text is d and whose version is greater than every
\* version ever assigned to that URI before, also before a RemoveDocument.
C1_VersionAboveEveryPrior ==
  \A t \in Readers :
    LET u == local[t].uri
        r == local[t].res
    IN hist[u].op = "update" =>
         /\ r # NoDoc
         /\ r.text = hist[u].text
         /\ r.version > hist[u].priorEver

\* C1 (amended): a GetDocument(uri) that follows UpdateDocument(uri, d)
\* returns a record whose text is d and whose version is greater than every
\* version assigned to that URI since the URI was last absent from the
\* store; after a RemoveDocument the versions start again at 1.
C1_VersionAbovePriorSinceAbsent ==
  \A t \in Readers :
    LET u == local[t].uri
        r == local[t].res
    IN hist[u].op = "update" =>
         /\ r # NoDoc
         /\ r.text = hist[u].text
         /\ r.version > hist[u].priorLive

\* C1 witness: a reader holds the record of a second update in a row
C1_Witness ==
  \E t \in Readers :
    /\ hist[local[t].uri].op = "update"
    /\ hist[local[t].uri].priorLive = 1
    /\ local[t].res.version = 2

\* C2: UpdateDocument stores version 1 when no record of the URI is stored
\* and else the stored version plus 1; the records of other URIs stay.
C2_NextVersion ==
  [][\A u \in URIs :
       (documents'[u] # NoDoc /\ documents'[u] # documents[u]) =>
         /\ documents'[u].version =
              IF documents[u] = NoDoc THEN 1 ELSE documents[u].version + 1
         /\ \A w \in URIs \ {u} : documents'[w] = documents[w]]_vars

\* C2 witness: a record replaced once, next to a first record of another URI
C2_Witness ==
  /\ documents["a.crl"].version = 2
  /\ documents["b.crl"].version = 1

\* C3: after RemoveDocument(uri) a read of uri finds nothing until the next
\* UpdateDocument(uri); RemoveDocument changes no other record, no catalog
\* table and not loadedPackages, and removing an absent URI changes nothing.
C3_RemoveDocument ==
  /\ [](\A t \in Readers :
          hist[local[t].uri].op = "remove" => local[t].res = NoDoc)
  /\ [][\A u \in URIs :
          (hist'[u].op = "remove" /\ (hist[u].op # "remove" \/ documents'[u] # documents[u])) =>
            /\ documents'[u] = NoDoc
            /\ \A w \in URIs \ {u} : documents'[w] = documents[w]
            /\ documents[u] = NoDoc => documents' = documents
            /\ UNCHANGED catalogVars
            /\ UNCHANGED loadedPackages]_vars

\* C3 witness: a reader finds a removed URI absent while the other URI has
\* its record and the catalog has grown
C3_Witness ==
  \E t \in Readers :
    /\ hist[local[t].uri].op = "remove"
    /\ hist[local[t].uri].maxEver > 0
    /\ local[t].res = NoDoc
    /\ \E w \in URIs \ {local[t].uri} : documents[w] # NoDoc
    /\ env # StdlibEnv

\* C4: every UpdateDocument call returns in the end.
C4_UpdateReturns ==
  \A t \in Threads : (local[t].call = "UpdateDocument") ~> (pc[t] = "idle")

\* the goroutine is in the prober's code: AutoLoadImports, LoadPackage or
\* loadCarrionFile, the Eval they call and their call of RefreshDynamicData
\* up to its a.mu.Lock()
InProber(t) ==
  \/ pc[t] \in {"AutoLoadImports", "LoadPackage", "loadCarrionFile", "markLoaded"}
  \/ /\ pc[t] \in {"Eval", "Evaluating", "RefreshDynamicData"}
     /\ local[t].op \in {"LoadPackage", "loadCarrionFile"}

\* C5: the write lock is never held by a goroutine that is executing
\* AutoLoadImports, LoadPackage or loadCarrionFile.
C5_ProberOutsideWriteLock ==
  \A t \in Threads : InProber(t) => muWriter # t

\* C6: a table obtained through GetBuiltins() / GetGrimoires(), or read by a
\* feature provider, is always a completely enumerated table.
C6_TablesComplete ==
  /\ \A t \in Threads : pc[t] = "holding" => heap[local[t].snap] \in published
  /\ Readers # {} => heap[aBuiltins] \in published /\ heap[aGrimoires] \in published

\* C7: a table a caller holds never changes.
C7_SnapshotImmutable ==
  [][\A t \in Threads :
       (pc[t] = "holding" /\ pc'[t] = "holding") =>
         heap'[local[t].snap] = heap[local[t].snap]]_vars

\* the goroutine is evaluating into the environment, or enumerating the
\* environment into the tables
Ingesting(t) == pc[t] = "Evaluating"
Enumerating(t) == pc[t] \in {"loadBuiltins", "loadGrimoires"}

\* C8: while a goroutine evaluates package source into the environment, no
\* other goroutine enumerates the environment or evaluates into it.
C8_RefreshIngestExclusive ==
  \A t1, t2 \in Threads :
    (t1 # t2 /\ Ingesting(t1)) => ~(Ingesting(t2) \/ Enumerating(t2))

\* C9: concurrent LoadPackage(name) calls evaluate the package's source at
\* most once.
C9_PackageEvaluatedOnce ==
  \A p \in PackageNames : evalCount[p] <= 1

\* C10: a read of a URI that starts after an UpdateDocument of that URI has
\* returned gets the record of that update or of a later one, never an older
\* one, and finds no record only if a RemoveDocument came after.
C10_ReadSeesReturnedUpdate ==
  \A t \in Readers :
    LET u == local[t].uri
        r == local[t].res
    IN /\ r # NoDoc => r.seq >= local[t].floor
       /\ r = NoDoc => (local[t].floor = 0 \/ hist[u].op = "remove")

\* C10 witness: a read that started after the second update of its URI had
\* returned holds that update's record
C10_Witness ==
  \E t \in Readers :
    /\ local[t].floor = 2
    /\ local[t].res.seq = 2
    /\ local[t].res.version = 2

\* the runtime modules that are not packages
BuiltinModules == {"file", "os", "time", "http"}

\* C16: LoadPackage(name) for a runtime module (file, os, time, http) returns
\* success and does nothing else: it evaluates nothing, refreshes nothing,
\* and marks nothing loaded.
C16_BuiltinModuleNoOp ==
  \A t \in Threads :
    (local[t].call = "LoadPackage" /\ local[t].pkg \in BuiltinModules) =>
      /\ pc[t] \in {"LoadPackage", "returned"}
      /\ local[t].err = ""
      /\ local[t].pkg \notin loadedPackages

\* the package is found, has a main file, and the file can be read, parses
\* and evaluates without an error
LoadSucceeds(name) ==
  LET packagePath == findPackage(name)
      mainFile == MainFileOf(packagePath, name)
  IN /\ packagePath # <<>>
     /\ mainFile # NoFile
     /\ mainFile \notin UnreadableFiles \cup ParseErrorFiles \cup EvalErrorFiles

\* C17: LoadPackage(name) marks name loaded only when the load succeeded: a
\* package that is missing, has no main file, cannot be read, has parse
\* errors or raises in evaluation makes LoadPackage return a failure and
\* stays out of loadedPackages; and a package marked loaded is not
\* evaluated again.
C17_LoadedOnlyOnSuccess ==
  /\ \A n \in loadedPackages : LoadSucceeds(n)
  /\ \A t \in Threads :
       (pc[t] = "returned" /\ local[t].call = "LoadPackage") =>
         /\ local[t].err = "" <=> LoadSucceeds(local[t].pkg)
         /\ local[t].err # "" => local[t].pkg \notin loadedPackages
  /\ \A t \in Threads :
       (pc[t] = "Eval" /\ local[t].op = "LoadPackage") =>
         local[t].pkg \notin loadedPackages

\* C18: DiscoverAvailablePackages maps every package name that a search path
\* has to the directory findPackage resolves it to: the one in the
\* earliest search path.
C18_DiscoverFirstOccurrence ==
  \A t \in Threads :
    (pc[t] = "returned" /\ local[t].call = "DiscoverAvailablePackages") =>
      LET packages == local[t].reply
      IN /\ DOMAIN packages =
              UNION {DirEntries(PackagePaths[i]) : i \in 1..Len(PackagePaths)}
         /\ \A n \in DOMAIN packages : packages[n] = findPackage(n)

\* every import of the text fails to load
AllImportsFail(text) ==
  \A p \in ImportsOf(text) :
    IF IsRelative(p)
    THEN RelativeTarget(p) \notin Files \/ RelativeTarget(p) \in ParseErrorFiles
    ELSE \/ findPackage(p[1]) = <<>>
         \/ MainFileOf(findPackage(p[1]), p[1]) \in {NoFile} \cup ParseErrorFiles

\* C19: an import that fails to load does not fail the update: the record
\* stays stored as UpdateDocument stored it, the loop goes on with the other
\* imports, UpdateDocument returns the stored record after it has tried
\* every import, and an update all of whose imports fail does return.
C19_FailedImportKeepsUpdate ==
  /\ [][\A t \in Threads :
          (local[t].call = "UpdateDocument" /\ pc[t] # "UpdateDocument") =>
            LET u == local[t].uri
                r == local[t].res
            IN /\ documents[u] = r
               /\ r.text = local[t].text
               /\ r.version = hist[u].priorLive + 1
               /\ pc'[t] # "idle" =>
                    /\ local'[t].res = r
                    /\ documents'[u] = r
                    /\ local'[t].tried \cup local'[t].pending = ImportsOf(r.text)
               /\ pc'[t] = "idle" => local[t].tried = ImportsOf(r.text)]_vars
  /\ \A t \in Threads :
       (local[t].call = "UpdateDocument" /\ AllImportsFail(local[t].text))
         ~> (pc[t] = "idle")

\* C19 witness: an update whose three imports have all failed is about to
\* return its record, version 2
C19_Witness ==
  \E t \in Threads :
    /\ pc[t] = "AutoLoadImports"
    /\ local[t].text = "usesBroken"
    /\ local[t].pending = {}
    /\ Cardinality(local[t].tried) = 3
    /\ local[t].res.version = 2
    /\ documents[local[t].uri] = local[t].res


\* the primitive type names
TypeNames ==
  {"int", "float", "string", "bool", "array", "hash", "tuple", "None",
   "unknown"}

\* C15: the type of every variable of a stored document is a primitive type
\* name or the name of a class known in the document or the catalog; in
\* particular a variable assigned from an identifier that no earlier
\* statement declared has the type "unknown".
C15_VariableTypesClosed ==
  \A u \in AllURIs :
    LET symbols == documents[u].symbols
    IN \A v \in DOMAIN symbols.Variables :
         symbols.Variables[v].Type \in
           TypeNames \cup DOMAIN symbols.Grimoires \cup GrimoireNames

\* the position of a request lies outside the text of the document
OutsideText(doc, position) ==
  LET lines == Lines(doc.text)
      line == position[1]
      character == position[2]
  IN \/ line < 0
     \/ line >= Len(lines)
     \/ character < 0
     \/ character > Len(lines[line + 1])

PositionalFeatures == {"GetCompletions", "GetHover", "GetDefinition"}
DocumentFeatures == {"GetDocumentSymbols", "GetSemanticTokens", "FormatDocument"}

\* C11: no feature request panics; a request for a URI without a stored
\* document returns an empty or absent result, and so does a request whose
\* position (negative values included) lies outside the text.
C11_FeaturesNeverFail ==
  \A t \in Threads :
    /\ pc[t] # "panicked"
    /\ pc[t] = "returned"
       /\ local[t].call \in PositionalFeatures \cup DocumentFeatures
       /\ documents[local[t].uri] = NoDoc
       => local[t].reply = {}
    /\ pc[t] = "returned"
       /\ local[t].call \in PositionalFeatures
       /\ documents[local[t].uri] # NoDoc
       /\ OutsideText(documents[local[t].uri], local[t].pos)
       => local[t].reply = {}

\* the labels of a completion reply that more than one item carries
RepeatedLabels(reply) ==
  {i.label : i \in {x \in reply : \E y \in reply : y # x /\ y.label = x.label}}

\* C12: in every completion reply, from member completion and from general
\* completion, no two items carry the same label.
C12_LabelsUnique ==
  \A t \in Threads :
    pc[t] = "returned" /\ local[t].call = "GetCompletions"
    => RepeatedLabels(local[t].reply) = {}

\* the prefix GetCompletions took for a request inside the text
PrefixAt(doc, position) ==
  SubSeq(Lines(doc.text)[position[1] + 1], 1, position[2])

\* the candidates of general completion: keywords, built-ins, catalog
\* classes and the document's classes, functions and variables
Candidates(doc) ==
  {keywords[i] : i \in 1..Len(keywords)}
    \cup heap[aBuiltins] \cup heap[aGrimoires]
    \cup DOMAIN doc.symbols.Grimoires \cup DOMAIN doc.symbols.Spells
    \cup DOMAIN doc.symbols.Variables

\* C13: the labels general completion returns are exactly the candidates
\* that start with the match token, compared case-sensitively.
C13_GeneralCompletionMatches ==
  \A t \in Threads :
    LET doc == documents[local[t].uri]
        prefix == PrefixAt(doc, local[t].pos)
    IN pc[t] = "returned" /\ local[t].call = "GetCompletions"
       /\ doc # NoDoc /\ ~OutsideText(doc, local[t].pos)
       /\ ~HasSuffix(prefix, ".") /\ ~HasSuffix(prefix, "(")
       => {i.label : i \in local[t].reply} =
            {c \in Candidates(doc) :
               HasPrefix(Chars(c), extractLastToken(prefix))}

\* member-completion requests on a variable that was assigned C(...) with
\* C a class of the document or the catalog at the assignment: the prefix
\* is white space, the variable's name and a dot.  The variables so
\* assigned are the ones of type P in text "ctor".
ConstructedVariables(doc) ==
  {v \in DOMAIN doc.symbols.Variables :
     \E i \in 1..Len(Statements(doc.text)) :
       LET node == Statements(doc.text)[i]
       IN /\ node.kind = "AssignStatement"
          /\ node.Name.Value = v
          /\ node.Value.kind = "CallExpression"
          /\ node.Value.Function.kind = "Identifier"
          /\ node.Value.Function.Value \in
               DOMAIN doc.symbols.Grimoires \cup heap[aGrimoires]}

\* the class a constructed variable was assigned last
ConstructorOf(doc, v) ==
  LET at == {i \in 1..Len(Statements(doc.text)) :
               /\ Statements(doc.text)[i].kind = "AssignStatement"
               /\ Statements(doc.text)[i].Name.Value = v}
      last == CHOOSE i \in at : \A j \in at : j <= i
  IN Statements(doc.text)[last].Value.Function.Value

\* the keys of a class's method map
MethodsOf(doc, class) ==
  IF class \in DOMAIN doc.symbols.Grimoires
  THEN doc.symbols.Grimoires[class].Spells
  ELSE SpellsOf(class)

\* C14: a variable assigned C(...) has type C, and member completion on
\* that variable returns one item per key of C's method map and no other.
C14_ConstructorMembers ==
  \A t \in Threads :
    LET doc == documents[local[t].uri]
        prefix == PrefixAt(doc, local[t].pos)
    IN pc[t] = "returned" /\ local[t].call = "GetCompletions"
       /\ doc # NoDoc /\ ~OutsideText(doc, local[t].pos)
       /\ HasSuffix(prefix, ".")
       => \A v \in ConstructedVariables(doc) :
            Chars(v) = extractLastToken(TrimSuffix(prefix, "."))
            => /\ doc.symbols.Variables[v].Type = ConstructorOf(doc, v)
               /\ {i.label : i \in local[t].reply} =
                    MethodsOf(doc, ConstructorOf(doc, v))
               /\ RepeatedLabels(local[t].reply) = {}

\* C20: whatever notifications were handled, the Document Store holds no
\* record for a URI that does not end in .crl, and no diagnostics were
\* published for such a URI.
C20_OnlyCrlAnalyzed ==
  /\ \A u \in AllURIs : documents[u] # NoDoc => HasCrlSuffix(u)
  /\ \A i \in 1..Len(outbox) : HasCrlSuffix(outbox[i].URI)

\* a handler has called analyzeDocument for u and the goroutine is at the
\* call of UpdateDocument
Analyzing(t, u) ==
  pc[t] = "UpdateDocument" /\ local[t].frame # NoFrame /\ local[t].uri = u

\* C21: every analysis of a document is followed by a publishDiagnostics
\* notification for the same URI; the notification is sent when the record
\* of the analyzed text is stored, and it carries one diagnostic per parse
\* error of that text (none when the text parses cleanly).
C21_AnalysisPublishes ==
  /\ [][outbox' # outbox =>
          \E t \in Threads :
            /\ local[t].frame # NoFrame
            /\ documents[local[t].uri].text = local[t].text
            /\ outbox' = Append(outbox,
                 [method |-> "textDocument/publishDiagnostics",
                  URI |-> local[t].uri,
                  Diagnostics |-> ParseErrors(local[t].text)])]_vars
  /\ \A t \in {"g1"}, u \in HandlerURIs, n \in 0..MaxSeq :
       (Analyzing(t, u) /\ Len(outbox) = n)
         ~> (Len(outbox) > n /\ outbox[n + 1].URI = u)

\* C22: once the exit notification has been handled nothing is processed
\* any more: no handler is entered, no notification is sent, and the
\* documents and the catalog stay as they are.
C22_ExitTerminates ==
  [][exited =>
       /\ \A t \in Threads : pc[t] \in {"idle", "returned"} => pc'[t] = "idle"
       /\ UNCHANGED <<documents, outbox>>
       /\ UNCHANGED catalogVars]_vars

\* a FormatDocument call of t has returned its edits
Formatted(t) == pc[t] = "returned" /\ local[t].call = "FormatDocument"

\* the text that holds these characters: what the parser is given when the
\* new text of an edit is formatted again
TextNamed(content) == CHOOSE text \in AllTexts : Content(text) = content

\* C23: the formatter is idempotent: formatting the new text of an edit
\* again, under the same options, yields that same text.
C23_FormatIdempotent ==
  \A t \in Threads :
    Formatted(t) =>
      \A e \in local[t].reply, range \in Orderings(MapPairs) :
        \A again \in FormatterEdits(TextNamed(e.NewText),
                                    NewCarrionFormatter(local[t].options), range) :
          again.NewText = e.NewText

\* the text is what every run of the formatter makes of it
Canonical(text, options) ==
  \A range \in Orderings(MapPairs) :
    \A e \in FormatterEdits(text, NewCarrionFormatter(options), range) :
      e.NewText = Content(text)

\* C24: FormatDocument returns no edit when there is nothing to change: the
\* stored text is already in its formatted form, or it is the empty text.
C24_NoEditWhenCanonical ==
  \A t \in Threads :
    /\ Formatted(t)
    /\ documents[local[t].uri] # NoDoc
    /\ documents[local[t].uri].text = local[t].text
    /\ Canonical(local[t].text, local[t].options) \/ Content(local[t].text) = <<>>
    => local[t].reply = {}

\* C30: two runs of FormatDocument on the same text with the same options
\* return the same new text, also for a text with a hash literal of two
\* pairs.
C30_FormatDeterministic ==
  \A t1, t2 \in Threads :
    /\ Formatted(t1)
    /\ Formatted(t2)
    /\ local[t1].text = local[t2].text
    /\ local[t1].options = local[t2].options
    => \A e1 \in local[t1].reply, e2 \in local[t2].reply :
         e1.NewText = e2.NewText

\* the tokens of a text that GetSemanticTokens emits
Emitted(text) ==
  SelectSeq(Tokens(text), LAMBDA tok : mapTokenToSemanticType(tok.Type) >= 0)

\* the five integers of the i-th emitted token in the relative encoding:
\* the first token absolute, a later one relative to the token before it
Relative(toks, i) ==
  LET tok == toks[i]
      deltaLine == IF i = 1 THEN tok.Line ELSE tok.Line - toks[i - 1].Line
      deltaStart == IF i > 1 /\ tok.Line = toks[i - 1].Line
                    THEN tok.Column - toks[i - 1].Column ELSE tok.Column
  IN <<deltaLine, deltaStart, Len(tok.Literal),
       mapTokenToSemanticType(tok.Type), 0>>

\* C25: in the data of a semantic-tokens reply only the first emitted token
\* has an absolute position; every later token carries its line minus the
\* line of the token before it, and its column minus that token's column
\* when both are on one line (else its own column).
C25_SemanticTokensRelative ==
  \A t \in Threads :
    /\ pc[t] = "returned"
    /\ local[t].call = "GetSemanticTokens"
    /\ documents[local[t].uri] # NoDoc
    => \A r \in local[t].reply :
         LET toks == Emitted(documents[local[t].uri].text)
         IN /\ Len(r.Data) = 5 * Len(toks)
            /\ \A i \in 1..Len(toks) :
                 SubSeq(r.Data, 5 * i - 4, 5 * i) = Relative(toks, i)

\* the request of t has returned and its cursor is on a line of the stored
\* text, at a character greater than the length of that line
PastEndOfLine(t, call) ==
  /\ pc[t] = "returned"
  /\ local[t].call = call
  /\ documents[local[t].uri] # NoDoc
  /\ local[t].pos[1] >= 0
  /\ local[t].pos[1] < Len(Lines(documents[local[t].uri].text))
  /\ local[t].pos[2] > Len(Lines(documents[local[t].uri].text)[local[t].pos[1] + 1])

\* C26: with the cursor past the end of its line, completion answers as for
\* the cursor at the end of the line (the prefix is the entire line), and
\* hover returns nothing.
C26_CursorPastEndOfLine ==
  \A t \in Threads :
    LET doc == documents[local[t].uri]
        line == local[t].pos[1]
    IN /\ PastEndOfLine(t, "GetCompletions") =>
            local[t].reply =
              Completions(doc, line, Len(Lines(doc.text)[line + 1]),
                          heap[aBuiltins], heap[aGrimoires]).value
       /\ PastEndOfLine(t, "GetHover") => local[t].reply = {}

\* C27: handleDidChange applies the content changes c1..cn of its params in
\* order, each as the whole text, with or without a range: when the k-th
\* diagnostics are due the stored text is ck's text, the version has grown
\* by k and k - 1 notifications were sent for the URI; when the handler has
\* returned the stored text is cn's text, the version has grown by n and n
\* notifications were sent.
C27_ChangesAppliedInOrder ==
  \A t \in Threads :
    /\ local[t].frame.handler = "handleDidChange"
    /\ pc[t] \in {"publishDiagnostics", "returned"}
    => LET frame == local[t].frame
           u == local[t].uri
           n == Len(frame.params)
           k == n - Len(frame.changes)
           sent == IF pc[t] = "returned" THEN k ELSE k - 1
       IN /\ documents[u].text = frame.params[k].Text
          /\ documents[u].version = frame.version0 + k
          /\ Len(outbox) = frame.sent0 + sent
          /\ \A i \in 1..sent :
               /\ outbox[frame.sent0 + i].URI = u
               /\ outbox[frame.sent0 + i].Diagnostics
                    = ParseErrors(frame.params[i].Text)
          /\ pc[t] = "returned" => k = n

\* C27 witness: a didChange with two different texts, the first with a
\* range and the second without, has returned for a document that was
\* stored before.
C27_Witness ==
  \E t \in Threads :
    /\ pc[t] = "returned"
    /\ local[t].frame.handler = "handleDidChange"
    /\ Len(local[t].frame.params) = 2
    /\ local[t].frame.params[1].Range # <<>>
    /\ local[t].frame.params[2].Range = <<>>
    /\ local[t].frame.params[1].Text # local[t].frame.params[2].Text
    /\ local[t].frame.version0 > 0
    /\ documents[local[t].uri].text = local[t].frame.params[2].Text
    /\ Len(outbox) = local[t].frame.sent0 + 2

\* the top-level definitions of one kind in a text, as the parser reports
\* them
TopLevel(text, kind) ==
  {Statements(text)[i] : i \in {j \in 1..Len(Statements(text)) :
                                  Statements(text)[j].kind = kind}}

\* the outline the definitions of a text call for: a class entry per
\* grimoire with a method entry per method, a function entry per top-level
\* spell
Outline(text) ==
  {[Name |-> g.Name, Kind |-> 5,
    Children |-> {[Name |-> g.Methods[i].Name, Kind |-> 6] :
                    i \in 1..Len(g.Methods)}] :
     g \in TopLevel(text, "GrimoireDefinition")}
  \cup {[Name |-> s.Name, Kind |-> 12, Children |-> {}] :
          s \in TopLevel(text, "FunctionDefinition")}

\* C28: GetDocumentSymbols returns one class entry (kind 5) per class of
\* the document, with its methods (kind 6) as children, and one function
\* entry (kind 12) per top-level function, also when a top-level function
\* has the name of a method.
C28_OutlineComplete ==
  \A t \in Threads :
    /\ pc[t] = "returned"
    /\ local[t].call = "GetDocumentSymbols"
    /\ documents[local[t].uri] # NoDoc
    => local[t].reply = Outline(documents[local[t].uri].text)

\* C29: GetDefinition returns at most one location, also when the word at
\* the cursor names a class, a function and a variable of the document, and
\* every location carries the URI of the request.
C29_AtMostOneLocation ==
  \A t \in Threads :
    pc[t] = "returned" /\ local[t].call = "GetDefinition"
    => /\ Cardinality(local[t].reply) <= 1
       /\ \A location \in local[t].reply : location.URI = local[t].uri

====
